---- MODULE Spec2Model ----
(***************************************************************************)
(* kuhi: a right-to-left, stack based expression language.                 *)
(*   src/src/value.rs     the Value algebra                                *)
(*   src/src/builtins.rs  the table of builtins                            *)
(*   src/src/parser.rs    parse: source text -> located tokens             *)
(*   src/src/vm.rs        Env::run: the evaluator                          *)
(*   src/src/formatter.rs Formatter: mnemonics -> glyphs, before parsing   *)
(*                                                                         *)
(* Characters are modelled as strings.  ASCII characters stand for         *)
(* themselves; the other glyphs of the language are named:                 *)
(*   "sup-" U+207B superscript minus   "sup1" U+00B9 superscript one       *)
(*   "pi" U+03C0   "tau" U+03C4   "inf" U+221E   "eps" U+03B5              *)
(*   "tie" U+203F undertie (chain)     "lr" U+2194 left right arrow        *)
(*   "ud" U+2195 up down arrow         "ccw" U+21BA anticlockwise arrow    *)
(*   "times" U+00D7   "div" U+00F7   "supn" U+207F   "sqrt" U+221A         *)
(*   "circ" U+25EF   "circe" U+24D4   "iota" U+03B9   "alpha" U+03B1       *)
(*   "NL" line feed                    "cbrt" U+221B cube root             *)
(*   "grave" U+0060 grave accent                                           *)
(* A panic of the program (todo!, unreachable!, unwrap on Err, a rug       *)
(* division by zero) is the value Panic(why): an operator that is handed a *)
(* panicked operand never runs, so it hands the panic on.                  *)
(***************************************************************************)
EXTENDS Integers, Sequences, FiniteSets, TLC

VARIABLES origin, input, tokens, pc, stack, status, error, ghost, opnd, res,
          symbols, formatted, earlier

vars == <<origin, input, tokens, pc, stack, status, error, ghost, opnd, res,
          symbols, formatted, earlier>>

(***************************************************************************)
(* Bounds of the model.                                                    *)
(***************************************************************************)
\* Words of a source text (sources are words joined by one blank).
MaxWords == 3
\* Tokens of a token sequence handed to Env::new directly.
MaxToks == 2
\* Width, in bits, of the native exponent types (u32 / i32 in the program):
\* to_u32 succeeds on 0 .. 2^ExpBits - 1, to_i32 on -2^(ExpBits-1) ..
\* 2^(ExpBits-1) - 1.  The program's width is 32; the model keeps the width
\* a parameter so that n^m stays inside TLC's integers.
ExpBits == 3
\* Longest list iota builds: a step that would build a longer one is not
\* taken (the program's limit is its memory).
MaxList == 9

(***************************************************************************)
(* Exact rationals <<numerator, denominator>>, always in lowest terms with *)
(* a positive denominator (rug::Rational canonicalises on construction).   *)
(***************************************************************************)
Abs(n) == IF n < 0 THEN -n ELSE n

Sgn(n) == IF n < 0 THEN -1 ELSE IF n > 0 THEN 1 ELSE 0

RECURSIVE Gcd(_, _)
Gcd(a, b) == IF b = 0 THEN a ELSE Gcd(b, a % b)

RECURSIVE IPow(_, _)
IPow(n, m) == IF m = 0 THEN 1 ELSE n * IPow(n, m - 1)

\* Rational::from((n, d)), d # 0
Q(n, d) ==
    LET g == Gcd(Abs(n), Abs(d))
        s == IF d < 0 THEN -1 ELSE 1
    IN <<(s * n) \div g, (s * d) \div g>>

QInt(n) == <<n, 1>>
QAdd(p, q) == Q(p[1] * q[2] + q[1] * p[2], p[2] * q[2])
QMul(p, q) == Q(p[1] * q[1], p[2] * q[2])
QNeg(p) == <<-p[1], p[2]>>
QScale(p, n) == Q(p[1] * n, p[2])
QIsZero(p) == p[1] = 0
QSign(p) == Sgn(p[1])
\* recip of a non-zero rational
QRecip(p) == Q(p[2], p[1])
QPowNat(p, m) == <<IPow(p[1], m), IPow(p[2], m)>>

U32_MAX == IPow(2, ExpBits) - 1
I32_MAX == IPow(2, ExpBits - 1) - 1
I32_MIN == -IPow(2, ExpBits - 1)

\* Integer::to_u32 / Integer::to_i32: Some exactly when the value fits
FitsU32(m) == 0 <= m /\ m <= U32_MAX
FitsI32(m) == I32_MIN <= m /\ m <= I32_MAX

(***************************************************************************)
(* value.rs: enum Value.  Float and Complex components are 128 bit MPFR    *)
(* numbers in the program; the model computes them over exact rationals    *)
(* and takes the constant PI at a lower precision.                         *)
(***************************************************************************)
Integer(n) == [k |-> "Integer", n |-> n]
Rational(q) == [k |-> "Rational", q |-> q]
Complex(re, im) == [k |-> "Complex", re |-> re, im |-> im]
Float(x) == [k |-> "Float", x |-> x]
List(vals) == [k |-> "List", vals |-> vals]
Infinity(sign) == [k |-> "Infinity", sign |-> sign]
Undefined == [k |-> "Undefined"]
Pi(r, esign) == [k |-> "Pi", r |-> r, esign |-> esign]
E(r, exp) == [k |-> "E", r |-> r, exp |-> exp]
Epsilon(sign) == [k |-> "Epsilon", sign |-> sign]
InvalidState(err) == [k |-> "InvalidState", err |-> err]

Panic(why) == [k |-> "Panic", why |-> why]
IsPanic(v) == v.k = "Panic"
IsInvalid(v) == v.k = "InvalidState"

PI == <<22, 7>>

\* err.rs: enum RuntimeError
FunctionNotFound(c) == [e |-> "FunctionNotFound", c |-> c]
ListElementSizeMissmatch(a, b) == [e |-> "ListElementSizeMissmatch", first |-> a, second |-> b]
InvalidPop(len, arity) == [e |-> "InvalidPop", len |-> len, arity |-> arity]
TypeMissmatch(expected, got) == [e |-> "TypeMissmatch", expected |-> expected, got |-> got]
ExponentTooBig(m) == [e |-> "ExponentTooBig", m |-> m]
DivideByZero == [e |-> "DivideByZero"]
NoInverse == [e |-> "NoInverse"]
InverseOfNonFunction == [e |-> "InverseOfNonFunction"]
InvalidIotaValue == [e |-> "InvalidIotaValue"]

Contains(seq, x) == \E i \in 1..Len(seq) : seq[i] = x
Last(seq) == seq[Len(seq)]
Front(seq) == SubSeq(seq, 1, Len(seq) - 1)
RECURSIVE Reverse(_)
Reverse(seq) == IF seq = <<>> THEN <<>> ELSE Append(Reverse(Tail(seq)), Head(seq))

(***************************************************************************)
(* value.rs: Value::types, Value::validate_list, stronger_number_type.     *)
(* A result is [r |-> "Ok", ...], [r |-> "Err", err |-> e] or              *)
(* [r |-> "Panic", why |-> w].                                             *)
(***************************************************************************)
\* Complex > Float > Rational > Integer; unreachable!() when neither is one
stronger_number_type(a, b) ==
    IF a = "Complex" \/ b = "Complex" THEN [r |-> "Ok", ty |-> "Complex"]
    ELSE IF a = "Float" \/ b = "Float" THEN [r |-> "Ok", ty |-> "Float"]
    ELSE IF a = "Rational" \/ b = "Rational" THEN [r |-> "Ok", ty |-> "Rational"]
    ELSE IF a = "Integer" \/ b = "Integer" THEN [r |-> "Ok", ty |-> "Integer"]
    ELSE [r |-> "Panic", why |-> "unreachable: stronger_number_type"]

RECURSIVE types(_)
RECURSIVE validate_list(_)
RECURSIVE ZipTypes(_, _, _)
RECURSIVE ReduceList(_, _)

\* the for loop over a.iter().zip(b.iter()) of validate_list's closure
ZipTypes(a, b, j) ==
    IF j > Len(a) \/ j > Len(b) THEN [r |-> "Ok"]
    ELSE LET Both(a_t, b_t) ==
                 IF a_t.r = "Panic" THEN a_t
                 ELSE IF b_t.r = "Panic" THEN b_t
                 ELSE IF Contains(a_t.ts, "Number") /\ Contains(b_t.ts, "Number")
                         /\ stronger_number_type(Last(a_t.ts), Last(b_t.ts)).r = "Panic"
                      THEN stronger_number_type(Last(a_t.ts), Last(b_t.ts))
                      ELSE ZipTypes(a, b, j + 1)
         IN Both(types(a[j]), types(b[j]))

\* try_reduce: the accumulator is vals[1] throughout (the closure returns
\* Ok(List(a))); the closure first runs on (vals[1], vals[2])
ReduceList(vals, i) ==
    IF i > Len(vals) THEN [r |-> "Ok", ty |-> "Integer"]
    ELSE IF vals[1].k = "List" /\ vals[i].k = "List"
         THEN IF Len(vals[1].vals) # Len(vals[i].vals)
              THEN [r |-> "Err",
                    err |-> ListElementSizeMissmatch(Len(vals[1].vals), Len(vals[i].vals))]
              ELSE LET Zipped(z) == IF z.r = "Panic" THEN z ELSE ReduceList(vals, i + 1)
                   IN Zipped(ZipTypes(vals[1].vals, vals[i].vals, 1))
         ELSE [r |-> "Panic", why |-> "todo: list validation for non-list values"]

validate_list(v) ==
    IF v.k = "List" THEN ReduceList(v.vals, 2) ELSE [r |-> "Ok", ty |-> "Integer"]

types(v) ==
    CASE v.k = "Integer" -> [r |-> "Ok", ts |-> <<"Number", "Integer">>]
      [] v.k = "Rational" -> [r |-> "Ok", ts |-> <<"Number", "Rational">>]
      [] v.k = "Complex" -> [r |-> "Ok", ts |-> <<"Number", "Complex">>]
      [] v.k = "Float" -> [r |-> "Ok", ts |-> <<"Number", "Float">>]
      [] v.k = "List" ->
            LET Listed(vl) ==
                    IF vl.r = "Ok" THEN [r |-> "Ok", ts |-> <<"List", vl.ty>>]
                    ELSE IF vl.r = "Err"
                         THEN [r |-> "Panic", why |-> "unwrap on Err: validate_list"]
                         ELSE vl
            IN Listed(validate_list(v))
      [] v.k = "Infinity" -> [r |-> "Ok", ts |-> <<"Number", "Infinity">>]
      [] v.k = "Undefined" -> [r |-> "Ok", ts |-> <<"Number", "Undefined">>]
      [] v.k = "Pi" -> [r |-> "Ok", ts |-> <<"Number", "Float", "Pi">>]
      [] v.k = "E" -> [r |-> "Ok", ts |-> <<"Number", "Float", "E">>]
      [] v.k = "Epsilon" -> [r |-> "Ok", ts |-> <<"Number", "Epsilon">>]
      [] v.k = "InvalidState" -> [r |-> "Panic", why |-> "unreachable: types of InvalidState"]

\* self.types().contains(&"Number".to_string())
IsNumber(v) == Contains(types(v).ts, "Number")

\* Value::is_zero (String, List, Scope, Function: todo!())
is_zero(v) ==
    CASE v.k = "Integer" -> v.n = 0
      [] v.k = "Rational" -> QIsZero(v.q)
      [] v.k = "Complex" -> QIsZero(v.re) /\ QIsZero(v.im)
      [] v.k = "Float" -> QIsZero(v.x)
      [] v.k \in {"Infinity", "Undefined", "Epsilon"} -> FALSE
      [] v.k \in {"Pi", "E"} -> QIsZero(v.r)

\* the Float a Pi multiple is lowered to: r.numer / r.denom * (PI or 1/PI)
PiFloat(r, esign) == QMul(r, IF esign = 1 THEN PI ELSE QRecip(PI))

\* format!("{} and {}", self.types().join(", "), rhs.types().join(", "))
\* of the TypeMissmatch that add, pow and root build
MissmatchOf(a, b) ==
    LET Typed(ta, tb) ==
            IF ta.r = "Panic" THEN Panic(ta.why)
            ELSE IF tb.r = "Panic" THEN Panic(tb.why)
            ELSE InvalidState(TypeMissmatch("Number", <<ta.ts, tb.ts>>))
    IN Typed(types(a), types(b))

\* the `invalid =>` arm of neg and reciprocal: the types, reversed
NumericMissmatch(v) ==
    LET Typed(t) ==
            IF t.r = "Panic" THEN Panic(t.why)
            ELSE InvalidState(TypeMissmatch("Numeric", Reverse(t.ts)))
    IN Typed(types(v))

(***************************************************************************)
(* value.rs: reciprocal, pow, impl Neg, impl Add, impl Mul.                *)
(* The match arms are tried in the order of the source.                    *)
(***************************************************************************)
CAdd(c, d) == Complex(QAdd(c.re, d.re), QAdd(c.im, d.im))
CMul(c, d) == Complex(QAdd(QMul(c.re, d.re), QNeg(QMul(c.im, d.im))),
                      QAdd(QMul(c.re, d.im), QMul(c.im, d.re)))
CAddQ(c, q) == Complex(QAdd(c.re, q), c.im)
CMulQ(c, q) == Complex(QMul(c.re, q), QMul(c.im, q))
CRecip(c) ==
    LET n == QAdd(QMul(c.re, c.re), QMul(c.im, c.im))
    IN Complex(QMul(c.re, QRecip(n)), QMul(QNeg(c.im), QRecip(n)))

\* (ka, kb) | (kb, ka) patterns
Pair(a, b, ka, kb) == a.k = ka /\ b.k = kb
Either(a, b, ka, kb) == Pair(a, b, ka, kb) \/ Pair(a, b, kb, ka)
\* the operand of kind kd of such a pattern
Of(a, b, kd) == IF a.k = kd THEN a ELSE b

\* a faulty reciprocal, for mutation analysis: Infinity gives the Epsilon
\* of the other sign
Mut_reciprocal_flips_sign(v) ==
    IF IsPanic(v) THEN v
    ELSE LET Typed(t) ==
                 IF t.r = "Panic" THEN Panic(t.why)
                 ELSE IF ~Contains(t.ts, "Number")
                      THEN InvalidState(TypeMissmatch("Number", t.ts))
                 ELSE IF is_zero(v) THEN InvalidState(DivideByZero)
                 ELSE CASE v.k = "Integer" -> Rational(Q(1, v.n))
                        [] v.k = "Rational" -> Rational(QRecip(v.q))
                        [] v.k = "Complex" -> CRecip(v)
                        [] v.k = "Float" -> Float(QRecip(v.x))
                        [] v.k = "Infinity" -> Epsilon(-v.sign)
                        [] v.k = "Epsilon" -> Infinity(v.sign)
                        [] v.k = "Pi" -> Pi(QRecip(v.r), -v.esign)
                        [] v.k = "E" -> E(QRecip(v.r), -v.exp)
                        [] OTHER -> InvalidState(TypeMissmatch("Numeric", Reverse(t.ts)))
         IN Typed(types(v))

reciprocal(v) ==
    IF IsPanic(v) THEN v
    ELSE LET Typed(t) ==
                 IF t.r = "Panic" THEN Panic(t.why)
                 ELSE IF ~Contains(t.ts, "Number")
                      THEN InvalidState(TypeMissmatch("Number", t.ts))
                 ELSE IF is_zero(v) THEN InvalidState(DivideByZero)
                 ELSE CASE v.k = "Integer" -> Rational(Q(1, v.n))
                        [] v.k = "Rational" -> Rational(QRecip(v.q))
                        [] v.k = "Complex" -> CRecip(v)
                        [] v.k = "Float" -> Float(QRecip(v.x))
                        [] v.k = "Infinity" -> Epsilon(v.sign)
                        [] v.k = "Epsilon" -> Infinity(v.sign)
                        [] v.k = "Pi" -> Pi(QRecip(v.r), -v.esign)
                        [] v.k = "E" -> E(QRecip(v.r), -v.exp)
                        [] OTHER -> InvalidState(TypeMissmatch("Numeric", Reverse(t.ts)))
         IN Typed(types(v))

neg(v) ==
    IF IsPanic(v) THEN v
    ELSE CASE v.k = "Integer" -> Integer(-v.n)
           [] v.k = "Rational" -> Rational(QNeg(v.q))
           [] v.k = "Float" -> Float(QNeg(v.x))
           [] v.k = "Complex" -> Complex(QNeg(v.re), QNeg(v.im))
           [] v.k = "Infinity" -> Infinity(-v.sign)
           [] v.k = "Epsilon" -> Epsilon(-v.sign)
           [] v.k = "Pi" -> Pi(QNeg(v.r), v.esign)
           [] v.k = "E" -> E(QNeg(v.r), v.exp)
           [] OTHER -> NumericMissmatch(v)

\* rug's Rational::pow(i32): a negative power of zero divides by zero
QPowInt(q, n) ==
    IF n >= 0 THEN Rational(QPowNat(q, n))
    ELSE IF QIsZero(q) THEN Panic("rug: division by zero")
    ELSE Rational(QPowNat(QRecip(q), -n))

RECURSIVE pow(_, _)
RECURSIVE PowEach(_, _, _)

\* for val in a { res.push(val.pow(rhs)) }
PowEach(a, rhs, done) ==
    IF Len(done) = Len(a) THEN List(done)
    ELSE LET Pushed(p) == IF IsPanic(p) THEN p ELSE PowEach(a, rhs, Append(done, p))
         IN Pushed(pow(a[Len(done) + 1], rhs))

pow(self, rhs) ==
    IF IsPanic(self) THEN self
    ELSE IF IsPanic(rhs) THEN rhs
    ELSE LET Typed(tr) ==
    IF self.k = "List" /\ tr.r = "Panic" THEN Panic(tr.why)
    ELSE IF self.k = "List" /\ Contains(tr.ts, "Number") THEN PowEach(self.vals, rhs, <<>>)
    ELSE IF Pair(self, rhs, "Integer", "Integer")
         THEN IF Sgn(rhs.n) = -1
              THEN IF ~FitsU32(-rhs.n) THEN InvalidState(ExponentTooBig(rhs.n))
                   ELSE IF IPow(self.n, -rhs.n) = 0 THEN Panic("rug: division by zero")
                   ELSE Rational(Q(1, IPow(self.n, -rhs.n)))
              ELSE IF FitsU32(rhs.n) THEN Integer(IPow(self.n, rhs.n))
                   ELSE InvalidState(ExponentTooBig(rhs.n))
    ELSE IF Pair(self, rhs, "Rational", "Integer")
         THEN IF FitsI32(rhs.n) THEN QPowInt(self.q, rhs.n)
              ELSE IF FitsU32(rhs.n) THEN Rational(QPowNat(self.q, rhs.n))
              ELSE InvalidState(ExponentTooBig(rhs.n))
    ELSE MissmatchOf(self, rhs)
    IN Typed(IF self.k = "List" THEN types(rhs) ELSE [r |-> "Ok", ts |-> <<>>])

\* a faulty Undefined arm, for mutation analysis: only the left operand counts
Mut_undefined_left_only(a, b) == a.k = "Undefined"

\* the pattern (Undefined, _) | (_, Undefined) of Add and of Mul
UndefinedArm(a, b) == a.k = "Undefined" \/ b.k = "Undefined"

\* a faulty product, for mutation analysis: the Pi-multiple is lowered to a Float
Mut_pi_times_lowers(p, q) == Float(QMul(PiFloat(p.r, p.esign), q))

\* Pi(r, esign) times the Integer or Rational q in Mul: Pi(r * q, esign)
PiTimes(p, q) == Pi(QMul(p.r, q), p.esign)

\* the match of impl Add, both operands being of a "Number" kind
AddMatch(a, b) ==
    IF Pair(a, b, "Integer", "Integer") THEN Integer(a.n + b.n)
    ELSE IF Pair(a, b, "Rational", "Rational") THEN Rational(QAdd(a.q, b.q))
    ELSE IF Pair(a, b, "Complex", "Complex") THEN CAdd(a, b)
    ELSE IF Either(a, b, "Integer", "Rational")
         THEN Rational(QAdd(QInt(Of(a, b, "Integer").n), Of(a, b, "Rational").q))
    ELSE IF Either(a, b, "Integer", "Complex")
         THEN CAddQ(Of(a, b, "Complex"), QInt(Of(a, b, "Integer").n))
    ELSE IF Either(a, b, "Rational", "Complex")
         THEN CAddQ(Of(a, b, "Complex"), Of(a, b, "Rational").q)
    ELSE IF Pair(a, b, "Float", "Float") THEN Float(QAdd(a.x, b.x))
    ELSE IF Either(a, b, "Float", "Integer")
         THEN Float(QAdd(Of(a, b, "Float").x, QInt(Of(a, b, "Integer").n)))
    ELSE IF Either(a, b, "Float", "Rational")
         THEN Float(QAdd(Of(a, b, "Float").x, Of(a, b, "Rational").q))
    ELSE IF Pair(a, b, "Infinity", "Infinity")
         THEN IF a.sign = b.sign THEN Infinity(a.sign) ELSE Undefined
    ELSE IF \E kd \in {"Integer", "Rational", "Float"} : Either(a, b, "Infinity", kd)
         THEN Infinity(Of(a, b, "Infinity").sign)
    ELSE IF Either(a, b, "Infinity", "Complex") THEN Panic("todo: Infinity + Complex")
    ELSE IF Pair(a, b, "Epsilon", "Epsilon")
         THEN IF Sgn(a.sign) = Sgn(b.sign) THEN Epsilon(a.sign) ELSE Undefined
    ELSE IF a.k = "Epsilon" THEN b
    ELSE IF b.k = "Epsilon" THEN a
    ELSE IF UndefinedArm(a, b) THEN Undefined
    ELSE IF Either(a, b, "Pi", "Integer")
         THEN Float(QAdd(PiFloat(Of(a, b, "Pi").r, Of(a, b, "Pi").esign),
                         QInt(Of(a, b, "Integer").n)))
    ELSE IF Either(a, b, "Pi", "Rational")
         THEN Float(QAdd(PiFloat(Of(a, b, "Pi").r, Of(a, b, "Pi").esign),
                         Of(a, b, "Rational").q))
    ELSE IF Either(a, b, "Pi", "Complex")
         THEN CAddQ(Of(a, b, "Complex"), PiFloat(Of(a, b, "Pi").r, Of(a, b, "Pi").esign))
    ELSE Panic("todo: add")

\* impl Add for Value: self + rhs
add(self, rhs) ==
    IF IsPanic(self) THEN self
    ELSE IF IsPanic(rhs) THEN rhs
    ELSE LET Typed(ts, tr) ==
                 IF ts.r = "Panic" THEN Panic(ts.why)
                 ELSE IF Contains(ts.ts, "Number") /\ tr.r = "Panic" THEN Panic(tr.why)
                 ELSE IF Contains(ts.ts, "Number") /\ Contains(tr.ts, "Number")
                      THEN AddMatch(self, rhs)
                      ELSE MissmatchOf(self, rhs)
         IN Typed(types(self), types(rhs))

\* Infinity(a) times a finite number of sign s
InfTimes(a, s) == IF s > 0 THEN Infinity(a) ELSE IF s < 0 THEN Infinity(-a) ELSE Undefined

\* impl Mul for Value: self * rhs (no types check before the match)
mul(a, b) ==
    IF IsPanic(a) THEN a
    ELSE IF IsPanic(b) THEN b
    ELSE IF Pair(a, b, "Integer", "Integer") THEN Integer(a.n * b.n)
    ELSE IF Pair(a, b, "Rational", "Rational") THEN Rational(QMul(a.q, b.q))
    ELSE IF Pair(a, b, "Float", "Float") THEN Float(QMul(a.x, b.x))
    ELSE IF Pair(a, b, "Complex", "Complex") THEN CMul(a, b)
    ELSE IF Either(a, b, "Integer", "Rational")
         THEN Rational(QScale(Of(a, b, "Rational").q, Of(a, b, "Integer").n))
    ELSE IF Either(a, b, "Integer", "Complex")
         THEN CMulQ(Of(a, b, "Complex"), QInt(Of(a, b, "Integer").n))
    ELSE IF Either(a, b, "Rational", "Complex")
         THEN CMulQ(Of(a, b, "Complex"), Of(a, b, "Rational").q)
    ELSE IF Either(a, b, "Float", "Integer")
         THEN Float(QScale(Of(a, b, "Float").x, Of(a, b, "Integer").n))
    ELSE IF Either(a, b, "Float", "Rational")
         THEN Float(QMul(Of(a, b, "Float").x, Of(a, b, "Rational").q))
    ELSE IF Either(a, b, "Float", "Complex")
         THEN CMulQ(Of(a, b, "Complex"), Of(a, b, "Float").x)
    ELSE IF Pair(a, b, "Infinity", "Infinity") THEN Infinity(a.sign * b.sign)
    ELSE IF Either(a, b, "Infinity", "Integer")
         THEN InfTimes(Of(a, b, "Infinity").sign, Sgn(Of(a, b, "Integer").n))
    ELSE IF Either(a, b, "Infinity", "Rational")
         THEN InfTimes(Of(a, b, "Infinity").sign, QSign(Of(a, b, "Rational").q))
    ELSE IF Either(a, b, "Infinity", "Float")
         THEN IF QIsZero(Of(a, b, "Float").x) THEN Undefined
              ELSE Infinity(Of(a, b, "Infinity").sign * QSign(Of(a, b, "Float").x))
    ELSE IF Either(a, b, "Infinity", "Complex") THEN Panic("todo: Infinity + Complex")
    ELSE IF Pair(a, b, "Epsilon", "Epsilon") THEN Epsilon(a.sign * b.sign)
    ELSE IF Either(a, b, "Infinity", "Epsilon") THEN Undefined
    ELSE IF Either(a, b, "Epsilon", "Integer")
         THEN Integer(Of(a, b, "Integer").n * Of(a, b, "Epsilon").sign)
    ELSE IF Either(a, b, "Epsilon", "Rational")
         THEN Rational(QScale(Of(a, b, "Rational").q, Of(a, b, "Epsilon").sign))
    ELSE IF Either(a, b, "Epsilon", "Float")
         THEN Float(QScale(Of(a, b, "Float").x, Of(a, b, "Epsilon").sign))
    ELSE IF Either(a, b, "Epsilon", "Complex")
         THEN CMulQ(Of(a, b, "Complex"), QInt(Of(a, b, "Epsilon").sign))
    ELSE IF UndefinedArm(a, b) THEN Undefined
    ELSE IF Either(a, b, "Pi", "Integer")
         THEN PiTimes(Of(a, b, "Pi"), QInt(Of(a, b, "Integer").n))
    ELSE IF Either(a, b, "Pi", "Rational")
         THEN PiTimes(Of(a, b, "Pi"), Of(a, b, "Rational").q)
    ELSE IF Either(a, b, "Pi", "Complex")
         THEN CMulQ(Of(a, b, "Complex"), PiFloat(Of(a, b, "Pi").r, Of(a, b, "Pi").esign))
    ELSE Panic("todo: mul")

(***************************************************************************)
(* builtins.rs.  A Stack is a sequence, its top is its last element.  A    *)
(* RuntimeResult is [r |-> "Ok", stack |-> s], [r |-> "Err", err |-> e] or *)
(* [r |-> "Panic", why |-> w].                                             *)
(***************************************************************************)
Ok(s) == [r |-> "Ok", stack |-> s]
Err(e) == [r |-> "Err", err |-> e]
Panicked(w) == [r |-> "Panic", why |-> w]

\* stack.push(v), v the result of a Value operator
Push(s, v) == IF IsPanic(v) THEN Panicked(v.why) ELSE Ok(Append(s, v))

\* __pop_n::<N>: the stack below the N popped values; Top(s, 1) is values[0]
Below(s, n) == SubSeq(s, 1, Len(s) - n)
Top(s, i) == s[Len(s) - i + 1]

\* The values a transcendental function (MPFR sin, asin, sinh, asinh) can
\* return are not computed: the result is a Float of one of these values,
\* zero, positive or negative, chosen by the step.
Approx == {<<0, 1>>, <<1, 2>>, <<-1, 2>>}

dup(s) == Ok(Append(Append(Below(s, 1), Top(s, 1)), Top(s, 1)))

pop(s) == Ok(Below(s, 1))

\* ([y, x]): push(y); push(x)
flip(s) == Ok(Append(Append(Below(s, 2), Top(s, 1)), Top(s, 2)))

\* a faulty roll, for mutation analysis: the top three values are rotated
Mut_roll_rotates(s) ==
    Ok(Append(Append(Append(Below(s, 3), Top(s, 2)), Top(s, 1)), Top(s, 3)))

\* ([z, y, x]): push(x); push(y); push(z)
roll(s) == Ok(Append(Append(Append(Below(s, 3), Top(s, 3)), Top(s, 2)), Top(s, 1)))

\* a faulty add, for mutation analysis: x is pushed back, y is lost
Mut_add_drops_y(s) == Ok(Append(Below(s, 2), Top(s, 2)))

\* the builtin add: ([y, x]) push(x + y)
b_add(s) == Push(Below(s, 2), add(Top(s, 2), Top(s, 1)))

\* push(x + -y)
sub(s) == Push(Below(s, 2), add(Top(s, 2), neg(Top(s, 1))))

\* the builtin mul: push(x * y)
b_mul(s) == Push(Below(s, 2), mul(Top(s, 2), Top(s, 1)))

\* push(x * y.reciprocal())
div(s) == Push(Below(s, 2), mul(Top(s, 2), reciprocal(Top(s, 1))))

\* the builtin pow: push(x.pow(&y))
b_pow(s) == Push(Below(s, 2), pow(Top(s, 2), Top(s, 1)))

\* push(x.pow(&-y))
root(s) == Push(Below(s, 2), pow(Top(s, 2), neg(Top(s, 1))))

\* the `_ =>` arm of sin, asin, sinh, asinh and iota
NotA(expected, x) ==
    LET Typed(t) == IF t.r = "Panic" THEN Panicked(t.why)
                    ELSE Err(TypeMissmatch(expected, t.ts))
    IN Typed(types(x))

\* sin, asin, sinh, asinh of one value: kinds is the set of kinds the
\* function has an arm for
Trans(x, kinds, fl) ==
    IF x.k \notin kinds THEN NotA("Number", x)
    ELSE IF x.k = "Complex" THEN Ok(<<Complex(fl, fl)>>)
    ELSE Ok(<<Float(fl)>>)

RECURSIVE SinEach(_, _, _)
\* for val in vals { list.push(sin(vec![val])?.first().unwrap().clone()) }
SinEach(vals, done, fl) ==
    IF Len(done) = Len(vals) THEN Ok(<<List(done)>>)
    ELSE LET x == vals[Len(done) + 1]
             Pushed(one) ==
                 IF one.r = "Ok" THEN SinEach(vals, Append(done, one.stack[1]), fl) ELSE one
         IN Pushed(IF x.k = "List" THEN SinEach(x.vals, <<>>, fl)
                   ELSE Trans(x, {"Integer", "Rational", "Float", "Complex", "Pi"}, fl))

\* the results of sin, asin, sinh, asinh are pushed on the stack below x
Onto(s, one) == IF one.r = "Ok" THEN Ok(Append(Below(s, 1), one.stack[1])) ELSE one

sin(s, fl) ==
    Onto(s, IF Top(s, 1).k = "List" THEN SinEach(Top(s, 1).vals, <<>>, fl)
            ELSE Trans(Top(s, 1), {"Integer", "Rational", "Float", "Complex", "Pi"}, fl))

asin(s, fl) == Onto(s, Trans(Top(s, 1), {"Integer", "Rational", "Float", "Complex", "Pi"}, fl))

sinh(s, fl) == Onto(s, Trans(Top(s, 1), {"Integer", "Rational", "Float", "Complex"}, fl))

asinh(s, fl) == Onto(s, Trans(Top(s, 1), {"Integer", "Rational", "Float", "Complex"}, fl))

\* to_u64 succeeds on every positive Integer of the model
iota(s) ==
    LET x == Top(s, 1) IN
    IF x.k = "Integer"
    THEN IF x.n <= 0 THEN Err(InvalidIotaValue)
         ELSE IF x.n > MaxList THEN Panicked("MaxList")
         ELSE Ok(Append(Below(s, 1), List([n \in 1..x.n |-> Integer(n)])))
    ELSE NotA("Integer", x)

no_inverse(s) == Err(NoInverse)

\* lazy_static BUILTINS: char -> Builtin {action, inverse, arity}
Builtin(action, inverse, arity) == [action |-> action, inverse |-> inverse, arity |-> arity]

BUILTINS ==
    [c \in {".", ",", "ud", "ccw", "+", "-", "times", "div", "supn", "sqrt",
            "circ", "circe", "iota"} |->
        CASE c = "." -> Builtin("dup", "no_inverse", 1)
          [] c = "," -> Builtin("pop", "no_inverse", 1)
          [] c = "ud" -> Builtin("flip", "flip", 2)
          [] c = "ccw" -> Builtin("roll", "roll", 3)
          [] c = "+" -> Builtin("add", "sub", 2)
          [] c = "-" -> Builtin("sub", "add", 2)
          [] c = "times" -> Builtin("mul", "div", 2)
          [] c = "div" -> Builtin("div", "mul", 2)
          [] c = "supn" -> Builtin("pow", "root", 2)
          [] c = "sqrt" -> Builtin("root", "pow", 2)
          [] c = "circ" -> Builtin("sin", "asin", 1)
          [] c = "circe" -> Builtin("sinh", "asinh", 1)
          [] c = "iota" -> Builtin("iota", "no_inverse", 1)]

\* (f)(stack) for a Func of the table
Apply(f, s, fl) ==
    CASE f = "dup" -> dup(s)
      [] f = "pop" -> pop(s)
      [] f = "flip" -> flip(s)
      [] f = "roll" -> roll(s)
      [] f = "add" -> b_add(s)
      [] f = "sub" -> sub(s)
      [] f = "mul" -> b_mul(s)
      [] f = "div" -> div(s)
      [] f = "pow" -> b_pow(s)
      [] f = "root" -> root(s)
      [] f = "sin" -> sin(s, fl)
      [] f = "asin" -> asin(s, fl)
      [] f = "sinh" -> sinh(s, fl)
      [] f = "asinh" -> asinh(s, fl)
      [] f = "iota" -> iota(s)
      [] f = "no_inverse" -> no_inverse(s)

\* a faulty call, for mutation analysis: len and arity are exchanged
Mut_call_swaps_fields(b, s, fl) ==
    IF b.arity > Len(s) THEN Err(InvalidPop(b.arity, Len(s))) ELSE Apply(b.action, s, fl)

\* Builtin::call
call(b, s, fl) ==
    IF b.arity > Len(s) THEN Err(InvalidPop(Len(s), b.arity)) ELSE Apply(b.action, s, fl)

\* a faulty call_inverse, for mutation analysis: the forward function is applied
Mut_inverse_calls_action(b, s, fl) ==
    IF b.arity > Len(s) THEN Err(InvalidPop(Len(s), b.arity)) ELSE Apply(b.action, s, fl)

\* Builtin::call_inverse
call_inverse(b, s, fl) ==
    IF b.arity > Len(s) THEN Err(InvalidPop(Len(s), b.arity)) ELSE Apply(b.inverse, s, fl)

(***************************************************************************)
(* parser.rs: Loc, Token, parse.  A located token is [tok, loc].           *)
(***************************************************************************)
Loc(start, end, line, column) == [start |-> start, end |-> end, line |-> line, column |-> column]

T_Integer(n) == [t |-> "Integer", n |-> n]
T_Rational(q) == [t |-> "Rational", q |-> q]
T_Complex(re, im) == [t |-> "Complex", re |-> re, im |-> im]
T_Infinity == [t |-> "Infinity"]
T_Epsilon == [t |-> "Epsilon"]
T_Pi(r) == [t |-> "Pi", r |-> r]
T_E(r, exp) == [t |-> "E", r |-> r, exp |-> exp]
T_List(toks) == [t |-> "List", toks |-> toks]
T_UnfinishedList(tls) == [t |-> "_UnfinishedList", tls |-> tls]
T_Scope(tls) == [t |-> "Scope", tls |-> tls]
T_Dup == [t |-> "Dup"]
T_Pop == [t |-> "Pop"]
T_Flip == [t |-> "Flip"]
T_Minus == [t |-> "Minus"]
T_Function(tls) == [t |-> "Function", tls |-> tls]
\* a faulty token constructor, for mutation analysis: the key is not the character
Mut_call_of_plus(c) == [t |-> "FunctionCall", c |-> "+"]
T_FunctionCall(c) == [t |-> "FunctionCall", c |-> c]
T_Inverse(tok, loc) == [t |-> "Inverse", tok |-> tok, loc |-> loc]
T_Spacing == [t |-> "Spacing"]
T_InvalidState == [t |-> "InvalidState"]

At(tok, loc) == [tok |-> tok, loc |-> loc]

\* err.rs: enum SyntaxError
InvalidSymbol(c) == [e |-> "InvalidSymbol", c |-> c]
UnmatchedParenthesis(open) == [e |-> "UnmatchedParenthesis", open |-> open]
LonelyInverse == [e |-> "LonelyInverse"]

Digits == {"0", "1", "2", "3", "4", "5", "6", "7", "8", "9"}

\* c.to_digit(10).unwrap()
DigitVal(c) ==
    CASE c = "0" -> 0 [] c = "1" -> 1 [] c = "2" -> 2 [] c = "3" -> 3 [] c = "4" -> 4
      [] c = "5" -> 5 [] c = "6" -> 6 [] c = "7" -> 7 [] c = "8" -> 8 [] c = "9" -> 9

\* char::len_utf8
len_utf8(c) ==
    IF c \in {"sup1", "pi", "tau", "eps", "times", "div", "iota", "alpha"} THEN 2
    ELSE IF c \in {"sup-", "inf", "tie", "lr", "ud", "ccw", "supn", "sqrt", "circ", "circe"}
         THEN 3
    ELSE 1

\* chars.peek() with i - 1 characters consumed, "" for None
Peek(chars, i) == IF i <= Len(chars) THEN chars[i] ELSE ""

\* loc.end += 1; loc.column += 1
Bump(loc) == [loc EXCEPT !.end = @ + 1, !.column = @ + 1]
\* loc.end -= 1; loc.column -= 1
Unbump(loc) == [loc EXCEPT !.end = @ - 1, !.column = @ - 1]
\* loc.start = prev.1.start; loc.column = prev.1.column
StartAt(loc, prev) == [loc EXCEPT !.start = prev.loc.start, !.column = prev.loc.column]

\* tokens.last().unwrap_or(&(Token::InvalidState, loc))
PrevOf(toks, loc) == IF Len(toks) > 0 THEN Last(toks) ELSE At(T_InvalidState, loc)

RECURSIVE DigitRun(_, _, _, _, _)
\* while let Some('0'..='9') = chars.peek() { n *= 10; n += digit; d *= 10;
\* loc.end += 1; loc.column += 1 }
DigitRun(chars, i, n, d, loc) ==
    IF Peek(chars, i) \in Digits
    THEN DigitRun(chars, i + 1, n * 10 + DigitVal(chars[i]), d * 10, Bump(loc))
    ELSE [i |-> i, n |-> n, d |-> d, loc |-> loc]

\* An arm of the scanner's match returns the token with the characters
\* consumed (i is the next character), the tokens and the cursor, or fails.
Tok(tok, i, toks, loc) == [r |-> "Tok", tok |-> tok, i |-> i, toks |-> toks, loc |-> loc]
SynErr(err, loc, toks) == [r |-> "Err", err |-> err, loc |-> loc, toks |-> toks]

\* the arm '0'..='9'; c = chars[i - 1] is the digit just read
DigitArm(chars, i, toks, loc) ==
    LET prev == PrevOf(toks, loc)
        minus == prev.tok.t = "Minus"
        sign == IF minus THEN -1 ELSE 1
        loc1 == IF minus THEN StartAt(loc, prev) ELSE loc
        toks1 == IF minus THEN Front(toks) ELSE toks
        Decimal(int, dec) ==
            Tok(T_Rational(QScale(Q(int.n * dec.d + dec.n, dec.d), sign)),
                dec.i, toks1, dec.loc)
        Number(int) ==
            IF Peek(chars, int.i) = "."
            THEN IF Peek(chars, int.i + 1) \in Digits
                 THEN Decimal(int, DigitRun(chars, int.i + 2, DigitVal(chars[int.i + 1]),
                                            10, Bump(Bump(int.loc))))
                 ELSE Tok(T_Integer(int.n), int.i, toks1, Unbump(Bump(int.loc)))
            ELSE Tok(T_Integer(sign * int.n), int.i, toks1, int.loc)
    IN Number(DigitRun(chars, i, DigitVal(chars[i - 1]), 1, loc1))

\* the real literal, if any, that 'i', pi and tau take from the tokens:
\* [q, toks, loc], q = none when the previous token is no Integer or Rational
RealBefore(toks, loc, none) ==
    LET prev == PrevOf(toks, loc) IN
    IF prev.tok.t = "Integer"
    THEN [q |-> QInt(prev.tok.n), toks |-> Front(toks), loc |-> StartAt(loc, prev)]
    ELSE IF prev.tok.t = "Rational"
    THEN [q |-> prev.tok.q, toks |-> Front(toks), loc |-> StartAt(loc, prev)]
    ELSE [q |-> none, toks |-> toks, loc |-> loc]

\* the arm 'i'
ImaginaryArm(chars, i, toks, loc) ==
    LET neg_ == Peek(chars, i) = "sup-"
        sign == IF neg_ THEN -1 ELSE 1
        i1 == IF neg_ THEN i + 1 ELSE i
        Decimal(real, int, dec) ==
            Tok(T_Complex(real.q, QScale(Q(int.n * dec.d + dec.n, dec.d), sign)),
                dec.i, real.toks, dec.loc)
        Number(real, int) ==
            IF Peek(chars, int.i) = "."
            THEN IF Peek(chars, int.i + 1) \in Digits
                 THEN Decimal(real, int,
                              DigitRun(chars, int.i + 2, DigitVal(chars[int.i + 1]),
                                       10, Bump(Bump(int.loc))))
                 \* decimal = number; denominator = 1
                 ELSE Tok(T_Complex(real.q, QScale(Q(int.n * 1 + int.n, 1), sign)),
                          int.i, real.toks, Unbump(Bump(int.loc)))
            ELSE Tok(T_Complex(real.q, QScale(QInt(int.n), sign)),
                     int.i, real.toks, int.loc)
        After(real, loc1) ==
            IF Peek(chars, i1) = "."
            THEN IF sign = -1 THEN SynErr(InvalidSymbol("sup-"), loc1, real.toks)
                 ELSE Tok(T_Complex(real.q, QInt(1)), i1, real.toks, loc1)
            ELSE Number(real,
                        IF Peek(chars, i1) \in Digits
                        THEN DigitRun(chars, i1 + 1, DigitVal(chars[i1]), 1, Bump(loc1))
                        ELSE [i |-> i1, n |-> 1, d |-> 1, loc |-> loc1])
        Real(real) == After(real, IF neg_ THEN Bump(real.loc) ELSE real.loc)
    IN Real(RealBefore(toks, loc, QInt(0)))

\* a faulty arm, for mutation analysis: the literal before pi is read but
\* stays among the tokens
Mut_pi_keeps_literal(chars, i, toks, loc) ==
    LET Times(times) == Tok(T_Pi(times.q), i, toks, times.loc)
    IN Times(RealBefore(toks, loc, QInt(1)))

\* the arm for pi
PiArm(chars, i, toks, loc) ==
    LET Times(times) == Tok(T_Pi(times.q), i, times.toks, times.loc)
    IN Times(RealBefore(toks, loc, QInt(1)))

\* the arm for tau: an Integer before it is read but not popped
TauArm(chars, i, toks, loc) ==
    LET Times(times) ==
            Tok(T_Pi(QScale(times.q, 2)), i,
                IF PrevOf(toks, loc).tok.t = "Integer" THEN toks ELSE times.toks,
                times.loc)
    IN Times(RealBefore(toks, loc, QInt(1)))

\* the arm for the undertie (chain)
ChainArm(chars, i, toks, loc) ==
    LET prev == PrevOf(toks, loc) IN
    IF prev.tok.t \notin {"Integer", "Rational", "Complex"}
    THEN SynErr(InvalidSymbol("tie"), loc, toks)
    ELSE LET loc1 == StartAt(loc, prev)
             toks1 == Front(toks)
             \* prev.get(prev.len().overflowing_sub(2).0)
             prev2 == IF Len(toks1) >= 2 THEN toks1[Len(toks1) - 1]
                      ELSE At(T_InvalidState, loc1)
         IN IF prev2.tok.t = "_UnfinishedList"
            \* let mut tokens = tokens.clone(); tokens.pop();
            THEN Tok(T_UnfinishedList(IF Len(prev2.tok.tls) = 0 THEN <<>>
                                      ELSE Front(prev2.tok.tls)),
                     i, toks1, StartAt(loc1, prev2))
            ELSE Tok(T_UnfinishedList(<<At(prev.tok, prev.loc)>>), i, toks1, loc1)

\* the arm for the superscript minus
MinusArm(chars, i, toks, loc) ==
    IF Peek(chars, i) = "sup1"
    THEN LET loc1 == [loc EXCEPT !.end = @ + len_utf8("sup1"), !.column = @ + 1]
         IN Tok(T_Inverse(T_InvalidState, loc1), i + 1, toks, loc1)
    ELSE Tok(T_Minus, i, toks, loc)

RECURSIVE ParenScan(_, _, _, _, _)
\* the while loop of the arm '(': [i, depth, sub, loc]
ParenScan(chars, i, depth, inner, loc) ==
    IF i > Len(chars) THEN [i |-> i, depth |-> depth, sub |-> inner, loc |-> loc]
    ELSE LET c == chars[i]
             loc1 == Bump(loc)
         IN IF c = "NL"
            THEN ParenScan(chars, i + 1, depth, inner,
                           [loc1 EXCEPT !.line = @ + 1, !.column = 1])
            ELSE LET d == IF c = "(" THEN depth + 1
                          ELSE IF c = ")" THEN depth - 1 ELSE depth
                 IN IF d = 0 THEN [i |-> i + 1, depth |-> 0, sub |-> inner, loc |-> loc1]
                    ELSE ParenScan(chars, i + 1, d, Append(inner, c), loc1)

RECURSIVE parse(_, _)
RECURSIVE Scan(_, _, _, _)
RECURSIVE MergeFrom(_, _, _)
RECURSIVE MergeLists(_, _)
RECURSIVE ResolveInverse(_, _)

\* the result of parse: Ok(tokens) or Err((error, loc, tokens)); cursor is
\* the caller's Loc as parse leaves it
ParseOk(toks, cursor) == [r |-> "Ok", toks |-> toks, cursor |-> cursor]
ParseErr(err, loc, toks, cursor) ==
    [r |-> "Err", err |-> err, loc |-> loc, toks |-> toks, cursor |-> cursor]

\* the arm '(': Token::Function(parse(sub.as_str(), loc)?)
ParenArm(chars, i, toks, loc) ==
    LET Inner(p, q) ==
            IF q.r = "Err" THEN [r |-> "Nested", err |-> q]
            ELSE Tok(T_Function(q.toks), p.i, toks, q.cursor)
        Scanned(p) ==
            IF p.depth # 0
            THEN SynErr(UnmatchedParenthesis(FALSE), [p.loc EXCEPT !.end = p.loc.start], toks)
            ELSE Inner(p, parse(p.sub, p.loc))
    IN Scanned(ParenScan(chars, i, 1, <<>>, loc))

\* the match of the scanner on c = chars[i - 1]
Arm(chars, i, toks, loc) ==
    LET c == chars[i - 1] IN
    CASE c \in {" ", "CR"} -> Tok(T_Spacing, i, toks, loc)
      [] c = "NL" -> Tok(T_Spacing, i, toks, [loc EXCEPT !.line = @ + 1, !.column = 1])
      [] c \in Digits -> DigitArm(chars, i, toks, loc)
      [] c = "i" -> ImaginaryArm(chars, i, toks, loc)
      [] c = "pi" -> PiArm(chars, i, toks, loc)
      [] c = "tau" -> TauArm(chars, i, toks, loc)
      [] c = "inf" -> Tok(T_Infinity, i, toks, loc)
      [] c = "eps" -> Tok(T_Epsilon, i, toks, loc)
      [] c = "tie" -> ChainArm(chars, i, toks, loc)
      [] c = "." -> Tok(T_Dup, i, toks, loc)
      [] c = "," -> Tok(T_Pop, i, toks, loc)
      [] c = "lr" -> Tok(T_Flip, i, toks, loc)
      [] c = "sup-" -> MinusArm(chars, i, toks, loc)
      [] c = "(" -> ParenArm(chars, i, toks, loc)
      [] c = ")" -> SynErr(UnmatchedParenthesis(FALSE), loc, toks)
      [] OTHER -> Tok(T_FunctionCall(c), i, toks, loc)

\* while j < tokens.len() of the list merge, for the unfinished list at i
MergeFrom(toks, i, unfinished) ==
    LET j == i + 1 IN
    IF j > Len(toks) THEN [r |-> "Ok", toks |-> toks, unfinished |-> unfinished]
    ELSE IF toks[j].tok.t = "Spacing"
         THEN [r |-> "Err", err |-> InvalidSymbol(" "), loc |-> toks[j].loc, toks |-> toks]
    ELSE LET rest == SubSeq(toks, 1, j - 1) \o SubSeq(toks, j + 1, Len(toks)) IN
         IF toks[j].tok.t = "_UnfinishedList"
         THEN MergeFrom(rest, i, unfinished \o toks[j].tok.tls)
         ELSE [r |-> "Ok", toks |-> rest, unfinished |-> Append(unfinished, toks[j])]

\* post-processing 1: merge unfinished lists with the following value
MergeLists(toks, i) ==
    IF i > Len(toks) THEN [r |-> "Ok", toks |-> toks]
    ELSE IF toks[i].tok.t = "_UnfinishedList"
         THEN LET Merged(m) ==
                      IF m.r = "Err" THEN m
                      ELSE MergeLists(
                             [m.toks EXCEPT ![i] =
                                At(T_List([n \in 1..Len(m.unfinished) |->
                                             m.unfinished[n].tok]),
                                   toks[i].loc)],
                             i + 1)
              IN Merged(MergeFrom(toks, i, toks[i].tok.tls))
         ELSE MergeLists(toks, i + 1)

\* post-processing 2: drop the Spacing tokens
DropSpacing(toks) == SelectSeq(toks, LAMBDA tl : tl.tok.t # "Spacing")

\* post-processing 3: have inverse consume the next token
ResolveInverse(toks, i) ==
    IF i > Len(toks) THEN [r |-> "Ok", toks |-> toks]
    ELSE IF toks[i].tok.t = "Inverse"
         THEN IF i + 1 > Len(toks)
              THEN [r |-> "Err", err |-> LonelyInverse, loc |-> toks[i].tok.loc, toks |-> toks]
              ELSE ResolveInverse(
                     [n \in 1..(Len(toks) - 1) |->
                        IF n < i THEN toks[n]
                        ELSE IF n = i
                             THEN At(T_Inverse(toks[i + 1].tok, toks[i].tok.loc),
                                     toks[i].tok.loc)
                             ELSE toks[n + 1]],
                     i + 1)
         ELSE ResolveInverse(toks, i + 1)

\* the scanner's loop, then the post-processing
Scan(chars, i, toks, loc) ==
    IF i > Len(chars)
    THEN LET Resolved(v) ==
                 IF v.r = "Err" THEN ParseErr(v.err, v.loc, v.toks, loc)
                 ELSE ParseOk(v.toks, loc)
             Merged(m) ==
                 IF m.r = "Err" THEN ParseErr(m.err, m.loc, m.toks, loc)
                 ELSE Resolved(ResolveInverse(DropSpacing(m.toks), 1))
         IN Merged(MergeLists(toks, 1))
    ELSE LET Matched(a) ==
                 IF a.r = "Nested" THEN a.err
                 ELSE IF a.r = "Err" THEN ParseErr(a.err, a.loc, a.toks, a.loc)
                 ELSE Scan(chars, a.i, Append(a.toks, At(a.tok, a.loc)),
                           [a.loc EXCEPT !.end = @ + len_utf8(chars[i]),
                                         !.start = a.loc.end + len_utf8(chars[i]),
                                         !.column = @ + 1])
         IN Matched(Arm(chars, i + 1, toks, loc))

\* pub fn parse(input: &str, loc: &mut Loc)
parse(chars, loc) == Scan(chars, 1, <<>>, loc)

(***************************************************************************)
(* value.rs: impl From<Token> for Value                                    *)
(***************************************************************************)
FromToken(tok) ==
    CASE tok.t = "Integer" -> Integer(tok.n)
      [] tok.t = "Rational" -> Rational(tok.q)
      [] tok.t = "Complex" -> Complex(tok.re, tok.im)
      [] tok.t = "Pi" -> Pi(tok.r, 1)
      [] OTHER -> Panic("todo: From<Token>")

(***************************************************************************)
(* Whether an operator of the Value algebra (add, mul, pow, neg,           *)
(* reciprocal) is handed an InvalidState operand when the Func f runs on   *)
(* the stack s (of depth >= arity): the operands are read off the bodies   *)
(* of the builtins.                                                        *)
(***************************************************************************)
RECURSIVE PowHanded(_, _)
PowHanded(self, rhs) ==
    \/ IsInvalid(self)
    \/ IsInvalid(rhs)
    \/ /\ self.k = "List"
       /\ ~IsPanic(rhs)
       /\ LET Typed(tr) == tr.r = "Ok" /\ Contains(tr.ts, "Number") IN Typed(types(rhs))
       /\ \E n \in 1..Len(self.vals) :
            /\ \A m \in 1..(n - 1) : ~IsPanic(pow(self.vals[m], rhs))
            /\ PowHanded(self.vals[n], rhs)

Handed(f, s) ==
    LET y == Top(s, 1)
        x == Top(s, 2)
        \* v is the intermediate value -y or y.reciprocal()
        Second(v) == ~IsPanic(v) /\ (IsInvalid(x) \/ IsInvalid(v))
        SecondPow(v) == ~IsPanic(v) /\ PowHanded(x, v)
    IN CASE f \in {"add", "mul"} -> IsInvalid(x) \/ IsInvalid(y)
         [] f = "sub" -> IsInvalid(y) \/ Second(neg(y))
         [] f = "div" -> IsInvalid(y) \/ Second(reciprocal(y))
         [] f = "pow" -> PowHanded(x, y)
         [] f = "root" -> IsInvalid(y) \/ SecondPow(neg(y))
         [] OTHER -> FALSE

(***************************************************************************)
(* vm.rs: Env::run.  One iteration of the for loop on the located token tl *)
(* and the stack s gives                                                   *)
(*   [r |-> "Cont", stack]            the loop goes on                     *)
(*   [r |-> "Err", stack, err, loc]   run returns Err((err, loc))          *)
(*   [r |-> "Panic", why]             the program panics                   *)
(* each with handed: an operator was handed an InvalidState operand.       *)
(* ub is what the build makes of the undefined behaviour of Token::Flip,   *)
(* fl the value of a transcendental function.                              *)
(***************************************************************************)
Cont(s, h) == [r |-> "Cont", stack |-> s, handed |-> h]
Fail(s, err, loc, h) == [r |-> "Err", stack |-> s, err |-> err, loc |-> loc, handed |-> h]
Abort(why, h) == [r |-> "Panic", why |-> why, handed |-> h]

\* a faulty check, for mutation analysis: the top of the stack is not looked at
Mut_no_check(s, loc, h) == Cont(s, h)

\* if let Value::InvalidState(err) = self.stack.last().unwrap_or(..)
CheckTop(s, loc, h) ==
    IF Len(s) > 0 /\ IsInvalid(Last(s)) THEN Fail(s, Last(s).err, loc, h) ELSE Cont(s, h)

\* a faulty push, for mutation analysis: the value goes under the stack
Mut_push_under(s, v, loc, h) ==
    IF IsPanic(v) THEN Abort(v.why, h) ELSE CheckTop(<<v>> \o s, loc, h)

\* stack.push(v) and the check after the match
PushChecked(s, v, loc, h) ==
    IF IsPanic(v) THEN Abort(v.why, h) ELSE CheckTop(Append(s, v), loc, h)

\* match builtin.call(stack.clone()) { Err(err) => return Err((err, loc)),
\* Ok(stack) => self.stack = stack } and the check after the match
Called(res_, s, loc, h) ==
    CASE res_.r = "Err" -> Fail(s, res_.err, loc, h)
      [] res_.r = "Panic" -> Abort(res_.why, h)
      [] res_.r = "Ok" -> CheckTop(res_.stack, loc, h)

\* BUILTINS.get(&'<U+2194>').unwrap_unchecked(): the table has no such key
\* (its key is U+2195), so the Option is None and the call is undefined
\* behaviour.  The build aborts, or goes on with some Builtin.
UBOutcomes == {"abort"} \cup DOMAIN BUILTINS

\* Token::FunctionCall(c), c a key of BUILTINS with the value b
CallArm(b, s, loc, fl) ==
    Called(call(b, s, fl), s, loc, b.arity <= Len(s) /\ Handed(b.action, s))

\* Token::Inverse(FunctionCall(c), iloc): on Err of call_inverse the span is
\* the Inverse token's own field iloc, in the check after the match it is loc
InverseArm(b, s, loc, iloc, fl) ==
    LET Inverted(res_) ==
            IF res_.r = "Err" THEN Fail(s, res_.err, iloc, FALSE)
            ELSE Called(res_, s, loc, b.arity <= Len(s) /\ Handed(b.inverse, s))
    IN Inverted(call_inverse(b, s, fl))

RECURSIVE StepTok(_, _, _, _)
RECURSIVE RunAll(_, _, _, _, _, _)

\* for (token, loc) in self.tokens.iter().rev(): n tokens are left to run
RunAll(tls, n, s, h, ub, fl) ==
    IF n = 0 THEN [r |-> "Ok", stack |-> s, handed |-> h]
    ELSE LET Stepped(one) ==
                 IF one.r = "Cont" THEN RunAll(tls, n - 1, one.stack, h \/ one.handed, ub, fl)
                 ELSE [one EXCEPT !.handed = h \/ one.handed]
         IN Stepped(StepTok(tls[n], s, ub, fl))

\* a faulty fold, for mutation analysis: a single result is wrapped in a List too
Mut_scope_wraps_one(tl, below, top, ub, fl) ==
    IF top.k # "List" THEN Abort("todo: scope for non-list values", FALSE)
    ELSE LET Ran(inner) ==
                 CASE inner.r = "Err" -> Fail(below, inner.err, inner.loc, inner.handed)
                   [] inner.r = "Panic" -> inner
                   [] inner.r = "Ok" ->
                        IF Len(inner.stack) = 0 THEN Cont(below, inner.handed)
                        ELSE CheckTop(Append(below, List(inner.stack)), tl.loc,
                                      inner.handed)
         IN Ran(RunAll(tl.tok.tls, Len(tl.tok.tls), top.vals, FALSE, ub, fl))

\* a faulty scope, for mutation analysis: the sub-program runs on the
\* parent's stack with the elements of the list on top of it
Mut_scope_on_parent(tl, below, top, ub, fl) ==
    IF top.k # "List" THEN Abort("todo: scope for non-list values", FALSE)
    ELSE LET Ran(inner) ==
                 CASE inner.r = "Err" -> Fail(below, inner.err, inner.loc, inner.handed)
                   [] inner.r = "Panic" -> inner
                   [] inner.r = "Ok" -> Cont(inner.stack, inner.handed)
         IN Ran(RunAll(tl.tok.tls, Len(tl.tok.tls), below \o top.vals, FALSE, ub, fl))

\* the arm Token::Scope, the top value popped
ScopeArm(tl, below, top, ub, fl) ==
    IF top.k # "List" THEN Abort("todo: scope for non-list values", FALSE)
    ELSE LET Ran(inner) ==
                 CASE inner.r = "Err" -> Fail(below, inner.err, inner.loc, inner.handed)
                   [] inner.r = "Panic" -> inner
                   [] inner.r = "Ok" ->
                        IF Len(inner.stack) = 0 THEN Cont(below, inner.handed)
                        ELSE IF Len(inner.stack) = 1
                             THEN CheckTop(Append(below, inner.stack[1]), tl.loc, inner.handed)
                             ELSE CheckTop(Append(below, List(inner.stack)), tl.loc,
                                           inner.handed)
         IN Ran(RunAll(tl.tok.tls, Len(tl.tok.tls), top.vals, FALSE, ub, fl))

StepTok(tl, s, ub, fl) ==
    LET tok == tl.tok
        loc == tl.loc
        underflow == Fail(s, InvalidPop(Len(s), 1), loc, FALSE)
    IN
    CASE tok.t = "Spacing" -> Cont(s, FALSE)
      [] tok.t \in {"Integer", "Rational", "Complex"} ->
            PushChecked(s, FromToken(tok), loc, FALSE)
      [] tok.t = "List" ->
            IF \E n \in 1..Len(tok.toks) : IsPanic(FromToken(tok.toks[n]))
            THEN Abort("todo: From<Token>", FALSE)
            ELSE PushChecked(s, List([n \in 1..Len(tok.toks) |-> FromToken(tok.toks[n])]),
                             loc, FALSE)
      [] tok.t = "_UnfinishedList" -> Abort("unreachable: Unfinished list", FALSE)
      [] tok.t = "Scope" ->
            IF Len(s) = 0 THEN underflow ELSE ScopeArm(tl, Below(s, 1), Top(s, 1), ub, fl)
      [] tok.t = "Infinity" -> PushChecked(s, Infinity(1), loc, FALSE)
      [] tok.t = "Epsilon" -> PushChecked(s, Epsilon(1), loc, FALSE)
      [] tok.t = "Pi" -> PushChecked(s, Pi(tok.r, 1), loc, FALSE)
      [] tok.t = "E" -> PushChecked(s, E(tok.r, tok.exp), loc, FALSE)
      [] tok.t = "Dup" ->
            IF Len(s) = 0 THEN underflow ELSE CheckTop(Append(s, Top(s, 1)), loc, FALSE)
      [] tok.t = "Pop" ->
            IF Len(s) = 0 THEN underflow ELSE CheckTop(Below(s, 1), loc, FALSE)
      [] tok.t = "Flip" ->
            IF ub = "abort" THEN Abort("undefined behaviour: unwrap_unchecked on None", FALSE)
            ELSE CallArm(BUILTINS[ub], s, loc, fl)
      [] tok.t = "Minus" ->
            IF Len(s) = 0 THEN underflow
            ELSE PushChecked(Below(s, 1), neg(Top(s, 1)), loc, IsInvalid(Top(s, 1)))
      [] tok.t = "FunctionCall" ->
            IF tok.c \in DOMAIN BUILTINS
            THEN CallArm(BUILTINS[tok.c], s, loc, fl)
            ELSE Fail(s, FunctionNotFound(tok.c), loc, FALSE)
      [] tok.t = "Function" -> Abort("todo: function application", FALSE)
      [] tok.t = "Inverse" ->
            IF tok.tok.t = "FunctionCall"
            THEN IF tok.tok.c \in DOMAIN BUILTINS
                 THEN InverseArm(BUILTINS[tok.tok.c], s, loc, tok.loc, fl)
                 ELSE Fail(s, FunctionNotFound(tok.tok.c), tok.loc, FALSE)
            ELSE Fail(s, InverseOfNonFunction, tok.loc, FALSE)
      [] tok.t = "InvalidState" -> Abort("unreachable", FALSE)

(***************************************************************************)
(* The inputs of the model.  A source text is a sequence of at most        *)
(* MaxWords words joined by one blank, or one of the texts of a family     *)
(* (an operator applied to literals); a token sequence handed to Env::new  *)
(* directly has at most MaxToks tokens.                                    *)
(***************************************************************************)
CoreWords ==
    { <<"+">>, <<"div">>, <<"supn">>, <<".">>, <<"iota">>, <<"sup-">>,
      <<"sup-", "sup1">>, <<"alpha">>, <<"0">>, <<"2">>, <<"9">>, <<"i">>,
      <<"i", "tie", "i">>, <<"1", "tie", "2">> }

\* literals of every kind the scanner has a rule for
LitWords ==
    { <<"0">>, <<"sup-", "1">>, <<"1", ".", "5">>, <<"2", "i", "3">>, <<"1", "tie", "2">>,
      <<"inf">>, <<"eps">>, <<"2", "pi">> }

RECURSIVE JoinWords(_)
JoinWords(ws) ==
    IF Len(ws) = 0 THEN <<>>
    ELSE IF Len(ws) = 1 THEN ws[1]
    ELSE ws[1] \o <<" ">> \o JoinWords(Tail(ws))

\* the literal of an integer -9 .. 9
IntChars == <<"0", "1", "2", "3", "4", "5", "6", "7", "8", "9">>
IntLit(n) == IF n < 0 THEN <<"sup-", IntChars[-n + 1]>> ELSE <<IntChars[n + 1]>>

IntLits == -3..3

\* the characters the scanner has no rule for, in and out of the table
TableChars == {"ud", "ccw", "+", "-", "times", "div", "supn", "sqrt", "circ", "circe", "iota"}
OtherChars == {"alpha", "sup1", "x"}

Families ==
    \* c a b, for each character c without a lexical rule, with 0 to 2 operands
    { JoinWords(<<<<c>>>> \o ops) :
        c \in TableChars \cup OtherChars,
        ops \in {<<>>, <<<<"2">>>>, <<<<"2">>, <<"3">>>>} }
    \cup
    { JoinWords(<<<<"sup-", "sup1", c>>>> \o ops) :
        c \in TableChars \cup OtherChars,
        ops \in {<<>>, <<<<"2">>>>, <<<<"2">>, <<"3">>>>} }
    \cup { JoinWords(<<<<c>>, IntLit(a), IntLit(b)>>) :
             c \in {"+", "div"}, a \in IntLits, b \in IntLits }
    \cup { JoinWords(<<w>> \o ops) :
             w \in {<<"lr">>, <<"(", ".", ")">>, <<"(", ".">>, <<")">>},
             ops \in {<<>>, <<<<"2">>>>, <<<<"2">>, <<"3">>>>} }
    \* a word to the left of a power that fails
    \cup { JoinWords(<<w, <<"supn">>>> \o ops) :
             w \in CoreWords,
             ops \in {<<<<"2">>, <<"i">>>>, <<<<"9">>, <<"2">>>>} }

\* a builtin and its inverse, one after the other.  The text runs right to
\* left: `inv c y  c y x` applies c to x and y, pushes y again and applies
\* the inverse of c; with inverse_first the inverse runs first.
RoundOps == {"+", "-", "times", "div", "supn", "sqrt"}
RoundLits == {<<"2">>, <<"3">>, <<"1", ".", "5">>}
ShuffleOps == {"ud", "ccw"}

SrcRound(c, y, x, inverse_first) ==
    IF inverse_first THEN JoinWords(<<<<c>>, y, <<"sup-", "sup1", c>>, y, x>>)
    ELSE JoinWords(<<<<"sup-", "sup1", c>>, y, <<c>>, y, x>>)

SrcTwice(c, inverse_first) ==
    IF inverse_first THEN JoinWords(<<<<c>>, <<"sup-", "sup1", c>>, <<"1">>, <<"2">>, <<"3">>>>)
    ELSE JoinWords(<<<<"sup-", "sup1", c>>, <<c>>, <<"1">>, <<"2">>, <<"3">>>>)

RoundTrips ==
    { SrcRound(c, y, x, f) : c \in RoundOps, y \in RoundLits, x \in RoundLits, f \in BOOLEAN }
    \cup { SrcTwice(c, f) : c \in ShuffleOps, f \in BOOLEAN }

\* a bracketed sub-program in front of a chain of integers: `(p) l`
BracketBodies == { <<".">>, <<" ", ".", " ">>, <<"+">>, <<",">> }
BracketLists == { <<2, 3, 4>>, <<1, 2>> }

RECURSIVE ChainOf(_)
ChainOf(l) ==
    IF Len(l) = 1 THEN IntLit(l[1]) ELSE IntLit(l[1]) \o <<"tie">> \o ChainOf(Tail(l))

SrcBracket(p, l) == <<"(">> \o p \o <<")", " ">> \o ChainOf(l)

Brackets == { SrcBracket(p, l) : p \in BracketBodies, l \in BracketLists }

\* a parenthesis without its partner, after a well-formed prefix
ParenPrefixes ==
    { <<>>, <<"2", " ">>, <<"pi", " ">>, <<"+", " ", "1">>, <<"(", ")">>, <<"(", ".", ")">> }
SrcUnclosed(prefix, rest) == prefix \o <<"(">> \o rest
SrcStray(prefix, rest) == prefix \o <<")">> \o rest
Unpaired ==
    { SrcUnclosed(prefix, rest) : prefix \in ParenPrefixes, rest \in {<<>>, <<".">>, <<" ", "2">>} }
    \cup { SrcStray(prefix, rest) : prefix \in ParenPrefixes, rest \in {<<>>, <<".">>, <<" ", "2">>} }

\* an imaginary literal in its contexts: prefix real `i` sign digits rest
LitPrefixes == { <<>>, <<"2", " ">>, <<"+">> }
LitRests == { <<>>, <<" ", "2">>, <<".">> }
Reals == { <<>>, <<"2">>, <<"sup-", "2">>, <<"1", ".", "5">> }
ImagSigns == { <<>>, <<"sup-">> }
ImagDigits == { <<>>, <<"3">>, <<"1", "2">> }
SrcImaginary(prefix, real, sign, digits, rest) ==
    prefix \o real \o <<"i">> \o sign \o digits \o rest
Imaginaries ==
    { SrcImaginary(prefix, real, sign, digits, rest) :
        prefix \in LitPrefixes, real \in Reals, sign \in ImagSigns,
        digits \in ImagDigits, rest \in LitRests }

\* pi and tau after a real literal, or after none: prefix real c rest
SrcCircle(prefix, real, c, rest) == prefix \o real \o <<c>> \o rest
Circles ==
    { SrcCircle(prefix, real, c, rest) :
        prefix \in LitPrefixes, real \in Reals, c \in {"pi", "tau"}, rest \in LitRests }

\* chains of 2 to MaxChain literals tied together, no blank between them
MaxChain == 4
ChainLits == { <<"1">>, <<"1", ".", "5">>, <<"2", "i", "3">> }

RECURSIVE SrcChain(_)
SrcChain(ws) ==
    IF Len(ws) = 1 THEN ws[1] ELSE ws[1] \o <<"tie">> \o SrcChain(Tail(ws))

ChainWords == UNION { [1..n -> ChainLits] : n \in 2..MaxChain }
Chains == { SrcChain(ws) : ws \in ChainWords }

\* a superscript minus directly before a digit run: prefix minus digits tail,
\* the tail nothing, a fractional part, or a lone `.`
DigitRuns == { <<"2">>, <<"1", "2">>, <<"0">> }
DigitTails == { <<>>, <<".", "5">>, <<".">>, <<".", " ", "2">> }
SrcSigned(prefix, digits, tail) == prefix \o <<"sup-">> \o digits \o tail
Signeds ==
    { SrcSigned(prefix, digits, tail) :
        prefix \in LitPrefixes, digits \in DigitRuns, tail \in DigitTails }

\* the rotate applied once or twice to three or four literals
Rolls ==
    { JoinWords(rolls \o lits) :
        rolls \in {<<<<"ccw">>>>, <<<<"ccw">>, <<"ccw">>>>},
        lits \in {<<<<"1">>, <<"2">>, <<"3">>>>, <<<<"1">>, <<"2">>, <<"3">>, <<"4">>>>} }

\* an imaginary magnitude with a `.` after its digits: a lone `.` or a
\* fractional part
FracReals == { <<>>, <<"2">> }
FracDigits == { <<"3">>, <<"1", "2">> }
FracTails == { <<".">>, <<".", "5">>, <<".", "2", "5">> }
SrcFraction(real, digits, frac) == real \o <<"i">> \o digits \o frac
Fractions ==
    { SrcFraction(real, digits, frac) :
        real \in FracReals, digits \in FracDigits, frac \in FracTails }

\* inverse markers: m of them in a row, then (after a gap) the token they
\* apply to, or nothing but blanks
MaxMarkers == 2
InvPrefixes == { <<>>, <<"+", " ">>, <<"2", " ">> }
InvGaps == { <<>>, <<" ">> }
InvFollows == { <<"+">>, <<"2">>, <<"alpha">>, <<".">> }
InvTrails == { <<>>, <<" ">>, <<"NL">> }

RECURSIVE Markers(_)
Markers(m) == IF m = 0 THEN <<>> ELSE <<"sup-", "sup1">> \o Markers(m - 1)

SrcInverse(prefix, m, gap, follow) == prefix \o Markers(m) \o gap \o follow
SrcLonely(prefix, m, trail) == prefix \o Markers(m) \o trail
Inverses ==
    { SrcInverse(prefix, m, gap, follow) :
        prefix \in InvPrefixes, m \in 1..MaxMarkers, gap \in InvGaps, follow \in InvFollows }
    \cup { SrcLonely(prefix, m, trail) :
             prefix \in InvPrefixes, m \in 1..MaxMarkers, trail \in InvTrails }

Sources ==
    { JoinWords(ws) : ws \in UNION { [1..n -> CoreWords] : n \in 0..MaxWords } }
    \cup { JoinWords(ws) : ws \in UNION { [1..n -> LitWords] : n \in 0..MaxWords } }
    \cup Families
    \cup RoundTrips
    \cup Brackets
    \cup Unpaired
    \cup Imaginaries
    \cup Circles
    \cup Chains
    \cup Signeds
    \cup Inverses
    \cup Fractions
    \cup Rolls

\* tokens built by a caller of Env::new, each at the Loc of its position
DirectToks ==
    { T_FunctionCall("."), T_FunctionCall(","),
      T_Inverse(T_FunctionCall("."), Loc(9, 9, 1, 1)),
      T_Scope(<<>>), T_Scope(<<At(T_Dup, Loc(7, 7, 1, 1))>>),
      T_Scope(<<At(T_FunctionCall("+"), Loc(7, 7, 1, 1))>>),
      T_List(<<T_Integer(1), T_Integer(2)>>), T_Integer(1),
      T_E(QInt(1), 1), T_Spacing }

\* a scope over a list of integers, on a parent stack of 0 to 2 values:
\* the tokens Scope(body), List(l), then the parent's literals
ScopeBodies ==
    { <<>>, <<T_Dup>>, <<T_Pop>>, <<T_FunctionCall("+")>>, <<T_FunctionCall("+"), T_Dup>> }
ScopeLists == { <<>>, <<1>>, <<1, 2>>, <<2, 3, 4>> }
ScopeParents == { <<>>, <<5>>, <<5, 6>> }

ScopeRun(body, l, parent) ==
    << T_Scope([n \in 1..Len(body) |-> At(body[n], Loc(7, 7, 1, 1))]),
       T_List([n \in 1..Len(l) |-> T_Integer(l[n])]) >>
    \o [n \in 1..Len(parent) |-> T_Integer(parent[n])]

DirectSeqs ==
    { [n \in 1..Len(ts) |-> At(ts[n], Loc(n - 1, n - 1, 1, n))] :
        ts \in UNION { [1..n -> DirectToks] : n \in 0..MaxToks }
                \cup { ScopeRun(body, l, parent) :
                         body \in ScopeBodies, l \in ScopeLists, parent \in ScopeParents } }

\* an Env that makes several runs: the tokens of its first run and of the
\* runs it is repurposed for, at most MaxRuns runs in all
MaxRuns == 2
FirstRuns ==
    { <<>>, <<T_Integer(1), T_Integer(2)>>,
      <<T_FunctionCall("+"), T_Integer(1), T_Integer(2)>>,
      <<T_FunctionCall("supn"), T_Dup, T_Integer(U32_MAX + 2)>>,
      <<T_Dup>>, <<T_FunctionCall("-"), T_Integer(1)>> }
LaterRuns ==
    { <<>>, <<T_Integer(7)>>, <<T_Dup>>, <<T_Pop>>, <<T_FunctionCall("+")>>,
      <<T_FunctionCall("+"), T_Integer(7)>>, <<T_Minus, T_Dup>> }
Located(ts) == [n \in 1..Len(ts) |-> At(ts[n], Loc(n - 1, n - 1, 1, n))]

NoError == [e |-> "none"]
NoGhost == [handed |-> FALSE, pre |-> <<>>, at |-> 0]
\* the tokens of the runs this Env has made before the current one, the
\* latest first, and how many they are
NoEarlier == [toks |-> <<>>, runs |-> 0]

(***************************************************************************)
(* The evaluator: parse the source (main.rs), then Env::run token by token *)
(***************************************************************************)
Init ==
    /\ \/ /\ origin = "source"
          /\ input \in Sources
          /\ tokens = <<>>
          /\ status = "idle"
          /\ pc = 0
       \/ /\ origin = "tokens"
          /\ input = <<>>
          /\ tokens \in DirectSeqs
          /\ status = "running"
          /\ pc = Len(tokens)
       \/ /\ origin = "session"
          /\ input = <<>>
          /\ tokens \in { Located(ts) : ts \in FirstRuns }
          /\ status = "running"
          /\ pc = Len(tokens)
    /\ stack = <<>>
    /\ error = NoError
    /\ ghost = NoGhost
    /\ opnd = <<>>
    /\ res = NoError
    /\ symbols = <<>>
    /\ formatted = <<>>
    /\ earlier = NoEarlier

\* parse(&input, &mut loc) with the cursor of a fresh session (main.rs),
\* then Env::new(tokens)
Parse ==
    /\ status = "idle"
    /\ \E p \in {parse(input, Loc(0, 0, 1, 1))} :
       /\ tokens' = p.toks
       /\ IF p.r = "Ok"
          THEN status' = "running" /\ pc' = Len(p.toks) /\ error' = error
          ELSE status' = "synerr" /\ pc' = 0 /\ error' = [err |-> p.err, loc |-> p.loc]
    /\ UNCHANGED <<origin, input, stack, ghost, opnd, res, symbols, formatted, earlier>>

\* the tokens a token reaches when it runs
RECURSIVE Reaches(_, _)
Reaches(tok, kind) ==
    \/ tok.t = kind
    \/ tok.t = "Scope" /\ \E n \in 1..Len(tok.tls) : Reaches(tok.tls[n].tok, kind)

UsesApprox(tok) ==
    \/ Reaches(tok, "FunctionCall")
    \/ Reaches(tok, "Inverse")
    \/ Reaches(tok, "Flip")

\* one iteration of the for loop of Env::run, on tokens[pc]
Step ==
    /\ status = "running"
    /\ pc > 0
    /\ \E ub \in IF Reaches(tokens[pc].tok, "Flip") THEN UBOutcomes ELSE {"abort"},
          fl \in IF UsesApprox(tokens[pc].tok) THEN Approx ELSE {<<0, 1>>} :
         \E one \in {StepTok(tokens[pc], stack, ub, fl)} :
         /\ ~(one.r = "Panic" /\ one.why = "MaxList")
         /\ ghost' = [handed |-> ghost.handed \/ one.handed, pre |-> stack, at |-> pc]
         /\ CASE one.r = "Cont" ->
                    /\ stack' = one.stack
                    /\ pc' = pc - 1
                    /\ UNCHANGED <<status, error>>
              [] one.r = "Err" ->
                    /\ stack' = one.stack
                    /\ status' = "err"
                    /\ error' = [err |-> one.err, loc |-> one.loc]
                    /\ pc' = pc
              [] one.r = "Panic" ->
                    /\ status' = "panic"
                    /\ error' = [err |-> [e |-> "panic", why |-> one.why], loc |-> tokens[pc].loc]
                    /\ UNCHANGED <<stack, pc>>
    /\ UNCHANGED <<origin, input, tokens, opnd, res, symbols, formatted, earlier>>

\* the for loop is over: Ok(())
Return ==
    /\ status = "running"
    /\ pc = 0
    /\ status' = "ok"
    /\ UNCHANGED <<origin, input, tokens, pc, stack, error, ghost, opnd, res, symbols, formatted, earlier>>

\* a faulty repurpose, for mutation analysis: the stack is emptied
Mut_repurpose_clears(s, tls) == [stack |-> <<>>, tokens |-> tls]

\* Env::repurpose: self.tokens = tokens.clone(), the stack is not touched
repurpose(s, tls) == [stack |-> s, tokens |-> tls]

\* env.repurpose(&tokens), run then starts at the last token: main makes
\* the next run of its Env after a run that returned Ok, and stops after Err
Repurpose ==
    /\ origin = "session"
    /\ status = "ok"
    /\ earlier.runs + 1 < MaxRuns
    /\ \E ts \in LaterRuns :
         \E env \in {repurpose(stack, Located(ts))} :
         /\ tokens' = env.tokens
         /\ stack' = env.stack
         /\ pc' = Len(env.tokens)
    /\ status' = "running"
    /\ earlier' = [toks |-> tokens \o earlier.toks, runs |-> earlier.runs + 1]
    /\ ghost' = [ghost EXCEPT !.pre = <<>>, !.at = 0]
    /\ UNCHANGED <<origin, input, error, opnd, res, symbols, formatted>>

Next == Parse \/ Step \/ Return \/ Repurpose

Spec == Init /\ [][Next]_vars

(***************************************************************************)
(* The Value algebra on its own: an operator of value.rs applied to        *)
(* operands of the kinds that can sit on the stack.                        *)
(***************************************************************************)
Operands ==
    { Integer(0), Integer(2), Integer(-1), Integer(U32_MAX + 1), Integer(-(U32_MAX + 1)),
      Rational(<<1, 2>>), Rational(<<-3, 2>>),
      Float(<<1, 2>>), Float(<<0, 1>>), Complex(<<0, 1>>, <<1, 1>>),
      List(<<>>), List(<<Integer(1)>>), List(<<Integer(1), Integer(2)>>),
      List(<<List(<<Integer(1)>>), List(<<Integer(2)>>)>>),
      Infinity(1), Infinity(-1), Epsilon(1), Epsilon(-1), Undefined,
      Pi(<<1, 1>>, 1), Pi(<<1, 2>>, -1), Pi(<<2, 1>>, 1), Pi(<<0, 1>>, -1) }

InitAlg ==
    /\ origin = "algebra"
    /\ input = <<>>
    /\ tokens = <<>>
    /\ pc = 0
    /\ stack = <<>>
    /\ status = "idle"
    /\ error = NoError
    /\ ghost = NoGhost
    /\ opnd \in Operands \X Operands
    /\ res = NoError
    /\ symbols = <<>>
    /\ formatted = <<>>
    /\ earlier = NoEarlier

Applied(op, v) ==
    /\ res = NoError
    /\ res' = [op |-> op, v |-> v]
    /\ UNCHANGED <<origin, input, tokens, pc, stack, status, error, ghost, opnd, symbols, formatted, earlier>>

AlgAdd == Applied("add", add(opnd[1], opnd[2]))
AlgNeg == Applied("neg", neg(opnd[1]))
AlgMul == Applied("mul", mul(opnd[1], opnd[2]))
AlgReciprocal == Applied("reciprocal", reciprocal(opnd[1]))
AlgPow == Applied("pow", pow(opnd[1], opnd[2]))

NextAlg == AlgAdd \/ AlgNeg \/ AlgMul \/ AlgReciprocal \/ AlgPow

SpecAlg == InitAlg /\ [][NextAlg]_vars

(***************************************************************************)
(* formatter.rs: Formatter.  A text is a sequence of characters; a         *)
(* mnemonic is the sequence of its ASCII characters, a glyph one character.*)
(***************************************************************************)
\* the array symbols of Formatter::new: (mnemonic, glyphs)
SymbolTable ==
    { [from |-> <<"_">>, to |-> <<"tie">>],
      [from |-> <<"i", "n", "f", "i", "n", "i", "t", "y">>, to |-> <<"inf">>],
      [from |-> <<"e", "p", "s", "i", "l", "o", "n">>, to |-> <<"eps">>],
      [from |-> <<"p", "i">>, to |-> <<"pi">>],
      [from |-> <<"t", "a", "u">>, to |-> <<"tau">>],
      [from |-> <<"a", "l", "p", "h", "a">>, to |-> <<"alpha">>],
      [from |-> <<"i", "o", "t", "a">>, to |-> <<"iota">>],
      [from |-> <<":">>, to |-> <<"lr">>],
      [from |-> <<"grave">>, to |-> <<"sup-">>],
      [from |-> <<"*">>, to |-> <<"times">>],
      [from |-> <<"%">>, to |-> <<"div">>],
      [from |-> <<"p", "o", "w">>, to |-> <<"supn">>],
      [from |-> <<"c", "r", "o", "o", "t">>, to |-> <<"cbrt">>],
      [from |-> <<"c", "b", "r", "t">>, to |-> <<"cbrt">>],
      [from |-> <<"s", "q", "r", "t">>, to |-> <<"sqrt">>],
      [from |-> <<"r", "o", "o", "t">>, to |-> <<"sqrt">>],
      [from |-> <<"s", "i", "n">>, to |-> <<"circ">>],
      [from |-> <<"i", "n", "v", "e", "r", "s", "e">>, to |-> <<"sup-", "sup1">>] }

\* str::replace(from, to): every match, left to right, without overlap
RECURSIVE Replace(_, _, _)
Replace(src, from, to) ==
    IF Len(src) < Len(from) THEN src
    ELSE IF SubSeq(src, 1, Len(from)) = from
         THEN to \o Replace(SubSeq(src, Len(from) + 1, Len(src)), from, to)
         ELSE <<src[1]>> \o Replace(Tail(src), from, to)

\* the mnemonic from occurs in the text
Occurs(src, from) ==
    \E i \in 1..(Len(src) - Len(from) + 1) : SubSeq(src, i, i + Len(from) - 1) = from

\* HashMap::from(symbols): the sort of the array by length is lost, a
\* HashMap iterates in the order of its hasher, whose keys (RandomState) are
\* drawn anew for every map, so the map of a Formatter can iterate in any
\* order.  A glyph is part of no mnemonic, so a replacement never makes a
\* new match and an entry whose mnemonic is not in the text replaces nothing
\* wherever it comes: the order is drawn for the entries that occur in the
\* text.
IterationOrders(src) ==
    LET present == { e \in SymbolTable : Occurs(src, e.from) }
    IN { o \in [1..Cardinality(present) -> present] :
            \A a, b \in 1..Cardinality(present) : a # b => o[a] # o[b] }

\* for (from, to) in symbols.into_iter() { src = src.replace(from, to) },
\* from the n-th entry on
RECURSIVE ReplaceAll(_, _, _)
ReplaceAll(src, order, n) ==
    IF n > Len(order) THEN src
    ELSE ReplaceAll(Replace(src, order[n].from, order[n].to), order, n + 1)

\* the texts handed to the formatter: at most MaxPieces pieces, one blank
\* between two pieces
MaxPieces == 2
Pieces ==
    { <<"c", "r", "o", "o", "t">>, <<"r", "o", "o", "t">>, <<"c", "b", "r", "t">>,
      <<"p", "i">>, <<"s", "i", "n">>, <<"c">>, <<"2">> }
PieceWords == UNION { [1..n -> Pieces] : n \in 1..MaxPieces }

InitFmt ==
    /\ origin = "formatter"
    /\ input \in { JoinWords(ws) : ws \in PieceWords }
    /\ tokens = <<>>
    /\ pc = 0
    /\ stack = <<>>
    /\ status = "idle"
    /\ error = NoError
    /\ ghost = NoGhost
    /\ opnd = <<>>
    /\ res = NoError
    /\ symbols = <<>>
    /\ formatted = <<>>
    /\ earlier = NoEarlier

\* Formatter::new(src)
FormatterNew ==
    /\ origin = "formatter"
    /\ status = "idle"
    /\ symbols' \in IterationOrders(input)
    /\ status' = "built"
    /\ UNCHANGED <<origin, input, tokens, pc, stack, error, ghost, opnd, res, formatted, earlier>>

\* Formatter::format
Format ==
    /\ origin = "formatter"
    /\ status = "built"
    /\ formatted' = ReplaceAll(input, symbols, 1)
    /\ status' = "formatted"
    /\ UNCHANGED <<origin, input, tokens, pc, stack, error, ghost, opnd, res, symbols, earlier>>

NextFmt == FormatterNew \/ Format

SpecFmt == InitFmt /\ [][NextFmt]_vars

(***************************************************************************)
(* Properties.                                                             *)
(***************************************************************************)
Terminal == status \in {"ok", "err", "panic", "synerr"}

SrcAdd(a, b) == JoinWords(<<<<"+">>, IntLit(a), IntLit(b)>>)
SrcDiv(a, b) == JoinWords(<<<<"div">>, IntLit(a), IntLit(b)>>)

\* C1: for all integers a and b, the run of the parsed tokens of the source
\* `+ a b` on an empty stack does not fail, and once it has returned Ok the
\* stack holds exactly one value, the Integer a + b.
C1_AddOfTwoLiterals ==
    \A a \in IntLits, b \in IntLits :
        (origin = "source" /\ input = SrcAdd(a, b)) =>
            /\ status \in {"idle", "running", "ok"}
            /\ status = "ok" => stack = <<Integer(a + b)>>

C1_Reached ==
    /\ origin = "source"
    /\ input = SrcAdd(-1, 2)
    /\ status = "ok"
    /\ stack = <<Integer(1)>>

\* the tokens whose arm of run pushes a value and does nothing else
IsLiteral(tok) ==
    tok.t \in {"Integer", "Rational", "Complex", "List", "Infinity", "Epsilon", "Pi", "E"}

\* the value that arm pushes
ValueOfLiteral(tok) ==
    CASE tok.t = "List" -> List([n \in 1..Len(tok.toks) |-> FromToken(tok.toks[n])])
      [] tok.t = "Infinity" -> Infinity(1)
      [] tok.t = "Epsilon" -> Epsilon(1)
      [] tok.t = "E" -> E(tok.r, tok.exp)
      [] OTHER -> FromToken(tok)

AllLiterals == \A n \in 1..Len(tokens) : IsLiteral(tokens[n].tok)

\* C2: run executes the tokens right to left: a run of literal tokens t1..tn
\* on an empty stack does not fail and ends with the stack (bottom to top)
\* value(tn), ..., value(t1); the leftmost literal ends on top.
C2_RightToLeft ==
    (status \in {"running", "ok", "err", "panic"} /\ AllLiterals /\ earlier.runs = 0) =>
        /\ status \in {"running", "ok"}
        /\ status = "ok" =>
             stack = [n \in 1..Len(tokens) |->
                        ValueOfLiteral(tokens[Len(tokens) - n + 1].tok)]

C2_Reached ==
    /\ status = "ok"
    /\ AllLiterals
    /\ Len(tokens) = 3
    /\ tokens[1].tok # tokens[3].tok
    /\ Last(stack) = ValueOfLiteral(tokens[1].tok)
    /\ stack[1] = ValueOfLiteral(tokens[3].tok)

\* C3: for every Integer x, the run of the parsed tokens of the source
\* `div 0 x` on an empty stack ends with Err(DivideByZero) at the span of the
\* divide token.
C3_DivideByZeroIsAnError ==
    \A x \in IntLits :
        (origin = "source" /\ input = SrcDiv(0, x) /\ Terminal) =>
            /\ status = "err"
            /\ error.err = DivideByZero
            /\ error.loc = tokens[1].loc

\* C4: a run of the tokens of a successful parse ends with Ok or with Err; it
\* never aborts (panic, todo, unreachable).
C4_OkOrErr == origin = "source" => status # "panic"

\* C5: add, neg, mul, reciprocal and pow are total: on operands of the kinds
\* that can sit on the stack each returns a Value or an InvalidState, never
\* aborts.
C5_AlgebraIsTotal == res # NoError => ~IsPanic(res.v)

\* C6: if the top of the stack is an InvalidState after a token has been
\* executed, run has returned Err with that value's error and that token's
\* span, and that token is the last one executed.
C6_PoisonOnTopHalts ==
    (Len(stack) > 0 /\ IsInvalid(Last(stack))) =>
        /\ status = "err"
        /\ ghost.at = pc
        /\ error.err = Last(stack).err
        /\ error.loc = tokens[pc].loc

C6_Reached ==
    /\ status = "err"
    /\ Len(stack) > 0
    /\ IsInvalid(Last(stack))
    /\ pc > 1

RECURSIVE Poisoned(_)
\* an InvalidState, or a List that holds one at any depth
Poisoned(v) ==
    \/ IsInvalid(v)
    \/ v.k = "List" /\ \E n \in 1..Len(v.vals) : Poisoned(v.vals[n])

\* C7: when run has returned Ok no value of the stack is an InvalidState,
\* neither at the top, nor below it, nor inside a List.
C7_OkStackIsClean == status = "ok" => \A n \in 1..Len(stack) : ~Poisoned(stack[n])

\* C8: in a run of parsed tokens started on the empty stack no operator of
\* the Value algebra is handed an InvalidState operand, the intermediate
\* values of sub, div and root included.
C8_PoisonIsNeverAnOperand == origin = "source" => ~ghost.handed

\* the key of the operator call the token makes, "" when it makes none
KeyOf(tok) ==
    IF tok.t = "FunctionCall" THEN tok.c
    ELSE IF tok.t = "Inverse" /\ tok.tok.t = "FunctionCall" THEN tok.tok.c
    ELSE ""

\* C9: for every builtin of the table and every stack shallower than its
\* arity, call and call_inverse return InvalidPop {len: the depth, arity: the
\* arity}; the token that made the call leaves the evaluator's stack as it
\* was and run returns that error.
C9_ArityIsChecked ==
    /\ \A c \in DOMAIN BUILTINS, fl \in Approx :
         Len(stack) < BUILTINS[c].arity =>
            /\ call(BUILTINS[c], stack, fl) = Err(InvalidPop(Len(stack), BUILTINS[c].arity))
            /\ call_inverse(BUILTINS[c], stack, fl)
                 = Err(InvalidPop(Len(stack), BUILTINS[c].arity))
    /\ (/\ ghost.at > 0
        /\ KeyOf(tokens[ghost.at].tok) \in DOMAIN BUILTINS
        /\ Len(ghost.pre) < BUILTINS[KeyOf(tokens[ghost.at].tok)].arity) =>
            /\ status = "err"
            /\ error.err = InvalidPop(Len(ghost.pre),
                                      BUILTINS[KeyOf(tokens[ghost.at].tok)].arity)
            /\ stack = ghost.pre

C9_Reached ==
    /\ status = "err"
    /\ tokens[pc].tok.t = "Inverse"
    /\ KeyOf(tokens[pc].tok) = "supn"
    /\ Len(stack) = 1
    /\ error.err = InvalidPop(1, 2)

\* the characters the scanner has a rule for
Dedicated ==
    Digits \cup {" ", "CR", "NL", "i", "pi", "tau", "inf", "eps", "tie", ".", ",", "lr",
                 "sup-", "(", ")"}

\* the characters of a text that no rule claims, in order; a superscript one
\* after a superscript minus is the second half of the inverse marker
Unclaimed(chars) ==
    LET Free(n) == /\ chars[n] \notin Dedicated
                   /\ ~(chars[n] = "sup1" /\ n > 1 /\ chars[n - 1] = "sup-")
        F[n \in 0..Len(chars)] ==
            IF n = 0 THEN <<>> ELSE IF Free(n) THEN Append(F[n - 1], chars[n]) ELSE F[n - 1]
    IN F[Len(chars)]

RECURSIVE KeysOf(_)
RECURSIVE KeysIn(_)
\* the keys of the operator-call tokens of a token, of located tokens, in order
KeysOf(tok) ==
    CASE tok.t = "FunctionCall" -> <<tok.c>>
      [] tok.t = "Inverse" -> KeysOf(tok.tok)
      [] tok.t \in {"Function", "Scope"} -> KeysIn(tok.tls)
      [] tok.t = "List" ->
            KeysIn([n \in 1..Len(tok.toks) |-> At(tok.toks[n], Loc(0, 0, 1, 1))])
      [] OTHER -> <<>>
KeysIn(tls) == IF Len(tls) = 0 THEN <<>> ELSE KeysOf(tls[1].tok) \o KeysIn(Tail(tls))

\* C10: parse turns every character that has no lexical rule into an
\* operator-call token keyed by that character; running such a token whose
\* character is no key of the table returns Err(FunctionNotFound(c)) with the
\* token's span and leaves the stack as it was.
C10_UnknownCharacters ==
    /\ (origin = "source" /\ status \in {"running", "ok", "err", "panic"}) =>
            KeysIn(tokens) = Unclaimed(input)
    /\ (/\ ghost.at > 0
        /\ tokens[ghost.at].tok.t = "FunctionCall"
        /\ tokens[ghost.at].tok.c \notin DOMAIN BUILTINS) =>
            /\ status = "err"
            /\ error.err = FunctionNotFound(tokens[ghost.at].tok.c)
            /\ error.loc = tokens[ghost.at].loc
            /\ stack = ghost.pre

C10_Reached ==
    /\ origin = "source"
    /\ status = "err"
    /\ error.err = FunctionNotFound("alpha")
    /\ Len(stack) = 2
    /\ pc = 1

\* the literal of a word, as the value run pushes for it
LitValue(w) == FromToken(parse(w, Loc(0, 0, 1, 1)).toks[1].tok)

\* an exact number, whichever of Integer and Rational holds it
SameNumber(v, w) ==
    LET AsQ(u) == IF u.k = "Integer" THEN QInt(u.n) ELSE u.q IN
    /\ v.k \in {"Integer", "Rational"}
    /\ w.k \in {"Integer", "Rational"}
    /\ AsQ(v) = AsQ(w)

\* C11: a builtin and its inverse undo each other on exact operands.  For
\* the builtins that keep the depth (swap, rotate), forward then inverse, or
\* inverse then forward, gives back the stack 3 2 1.  For the builtins that
\* take x and y and push one value, the reading kindest to the program is
\* taken: with the operand y pushed again between the two, the run ends Ok
\* with the number x alone on the stack.
C11_InverseUndoesForward ==
    /\ \A c \in ShuffleOps, f \in BOOLEAN :
         (origin = "source" /\ input = SrcTwice(c, f) /\ Terminal) =>
            /\ status = "ok"
            /\ stack = <<Integer(3), Integer(2), Integer(1)>>
    /\ \A c \in RoundOps, y \in RoundLits, x \in RoundLits, f \in BOOLEAN :
         (origin = "source" /\ input = SrcRound(c, y, x, f) /\ Terminal) =>
            /\ status = "ok"
            /\ Len(stack) = 1
            /\ SameNumber(stack[1], LitValue(x))

\* What a sub-program of ScopeBodies leaves of a stack of integers l (the
\* last element is the top), worked out from the meaning of its tokens:
\* [ok, ints] or, when a token finds too few values, [ok, err].
SubResult(body, l) ==
    LET Good(ints) == [ok |-> TRUE, ints |-> ints]
        Short(len, arity) == [ok |-> FALSE, err |-> InvalidPop(len, arity)]
    IN CASE body = <<>> -> Good(l)
         [] body = <<T_Dup>> ->
              IF Len(l) = 0 THEN Short(0, 1) ELSE Good(Append(l, l[Len(l)]))
         [] body = <<T_Pop>> ->
              IF Len(l) = 0 THEN Short(0, 1) ELSE Good(SubSeq(l, 1, Len(l) - 1))
         [] body = <<T_FunctionCall("+")>> ->
              IF Len(l) < 2 THEN Short(Len(l), 2)
              ELSE Good(Append(SubSeq(l, 1, Len(l) - 2), l[Len(l) - 1] + l[Len(l)]))
         [] body = <<T_FunctionCall("+"), T_Dup>> ->
              IF Len(l) = 0 THEN Short(0, 1)
              ELSE Good(Append(SubSeq(l, 1, Len(l) - 1), 2 * l[Len(l)]))

\* the last step ran a Scope token of ScopeBodies on a list of integers
ScopeBody == [n \in 1..Len(tokens[ghost.at].tok.tls) |-> tokens[ghost.at].tok.tls[n].tok]
ScopeSeed == [n \in 1..Len(Last(ghost.pre).vals) |-> Last(ghost.pre).vals[n].n]
ScopeRan ==
    /\ origin = "tokens"
    /\ ghost.at > 0
    /\ tokens[ghost.at].tok.t = "Scope"
    /\ Len(ghost.pre) > 0
    /\ Last(ghost.pre).k = "List"
    /\ \A n \in 1..Len(Last(ghost.pre).vals) : Last(ghost.pre).vals[n].k = "Integer"
    /\ ScopeBody \in ScopeBodies

\* what a scope pushes for the integers its sub-run leaves
Folded(ints) ==
    IF Len(ints) = 0 THEN <<>>
    ELSE IF Len(ints) = 1 THEN <<Integer(ints[1])>>
    ELSE <<List([n \in 1..Len(ints) |-> Integer(ints[n])])>>

\* C12: a Scope token on a list runs its sub-program on the elements of the
\* list and folds what is left into the parent: nothing for no value, the
\* value itself for one, one List of the values in stack order for more.
C12_ScopeFoldsResult ==
    (ScopeRan /\ SubResult(ScopeBody, ScopeSeed).ok) =>
        /\ status \in {"running", "ok"}
        /\ pc = ghost.at - 1
        /\ stack = Front(ghost.pre) \o Folded(SubResult(ScopeBody, ScopeSeed).ints)

C12_Reached ==
    /\ ScopeRan
    /\ status = "ok"
    /\ ScopeBody = <<T_Dup>>
    /\ stack = <<Integer(5), List(<<Integer(1), Integer(2), Integer(2)>>)>>

\* C13: the sub-run of a Scope sees the elements of the list and nothing of
\* the parent: a sub-program that needs more values than the list holds
\* fails with InvalidPop counted on the list alone, and after the step the
\* parent's values below the popped list are as they were.
C13_ScopeLeavesParentAlone ==
    ScopeRan =>
        IF SubResult(ScopeBody, ScopeSeed).ok
        THEN /\ status \in {"running", "ok"}
             /\ Len(stack) >= Len(ghost.pre) - 1
             /\ SubSeq(stack, 1, Len(ghost.pre) - 1) = Front(ghost.pre)
        ELSE /\ status = "err"
             /\ error.err = SubResult(ScopeBody, ScopeSeed).err
             /\ stack = Front(ghost.pre)

C13_Reached ==
    /\ ScopeRan
    /\ status = "err"
    /\ ScopeBody = <<T_FunctionCall("+")>>
    /\ error.err = InvalidPop(1, 2)
    /\ stack = <<Integer(6), Integer(5)>>

\* the sub-program a bracket body stands for
BodyOf(p) ==
    CASE p \in {<<".">>, <<" ", ".", " ">>} -> <<T_Dup>>
      [] p = <<"+">> -> <<T_FunctionCall("+")>>
      [] p = <<",">> -> <<T_Pop>>

\* C14: the token parse makes of `( P )` runs as a scope: the source `(P) L`,
\* L a chain of integers, ends Ok with the stack a scope of P leaves of L
\* (`( . ) 2 3 4` chained: one List of 2, 3, 4, 4).
C14_BracketRunsAsScope ==
    \A p \in BracketBodies, l \in BracketLists :
        (origin = "source" /\ input = SrcBracket(p, l) /\ Terminal) =>
            /\ status = "ok"
            /\ stack = Folded(SubResult(BodyOf(p), l).ints)

\* the offset of the character after a text, in bytes and in characters
RECURSIVE ByteLen(_)
ByteLen(chars) == IF Len(chars) = 0 THEN 0 ELSE len_utf8(chars[1]) + ByteLen(Tail(chars))
OffsetsAfter(chars) == {ByteLen(chars), Len(chars)}

\* C15: a `(` that is never closed makes parse fail with
\* UnmatchedParenthesis(true), at a span that starts and ends at the offset
\* of that `(`.
C15_UnclosedIsReported ==
    \A prefix \in ParenPrefixes, rest \in {<<>>, <<".">>, <<" ", "2">>} :
        (origin = "source" /\ input = SrcUnclosed(prefix, rest) /\ Terminal) =>
            /\ status = "synerr"
            /\ error.err = UnmatchedParenthesis(TRUE)
            /\ error.loc.start \in OffsetsAfter(prefix)
            /\ error.loc.end = error.loc.start

\* the tokens the scanner has pushed when it is through a prefix
ScannedOf(prefix) ==
    CASE prefix = <<>> -> <<>>
      [] prefix = <<"2", " ">> -> <<T_Integer(2), T_Spacing>>
      [] prefix = <<"pi", " ">> -> <<T_Pi(QInt(1)), T_Spacing>>
      [] prefix = <<"+", " ", "1">> -> <<T_FunctionCall("+"), T_Spacing, T_Integer(1)>>
      [] prefix = <<"(", ")">> -> <<T_Function(<<>>)>>
      [] prefix = <<"(", ".", ")">> -> <<T_Function(<<At(T_Dup, Loc(0, 2, 1, 3))>>)>>

\* C16: a `)` met with no `(` open makes parse fail with
\* UnmatchedParenthesis(false), at the position of that `)`, and the error
\* carries the tokens scanned before it.
C16_StrayIsReported ==
    \A prefix \in ParenPrefixes, rest \in {<<>>, <<".">>, <<" ", "2">>} :
        (origin = "source" /\ input = SrcStray(prefix, rest) /\ Terminal) =>
            /\ status = "synerr"
            /\ error.err = UnmatchedParenthesis(FALSE)
            /\ error.loc.start \in OffsetsAfter(prefix)
            /\ error.loc.end = error.loc.start
            /\ [n \in 1..Len(tokens) |-> tokens[n].tok] = ScannedOf(prefix)

\* the tokens of the texts around a literal, and the numbers of its parts
PrefixToks(prefix) ==
    CASE prefix = <<>> -> <<>>
      [] prefix = <<"2", " ">> -> <<T_Integer(2)>>
      [] prefix = <<"+">> -> <<T_FunctionCall("+")>>
RestToks(rest) ==
    CASE rest = <<>> -> <<>>
      [] rest = <<" ", "2">> -> <<T_Integer(2)>>
      [] rest = <<".">> -> <<T_Dup>>
RealOf(real) ==
    CASE real = <<>> -> <<0, 1>>
      [] real = <<"2">> -> <<2, 1>>
      [] real = <<"sup-", "2">> -> <<-2, 1>>
      [] real = <<"1", ".", "5">> -> <<3, 2>>
ImagOf(sign, digits) ==
    LET Signed(n) == IF sign = <<>> THEN <<n, 1>> ELSE <<-n, 1>> IN
    CASE digits = <<>> -> Signed(1)
      [] digits = <<"3">> -> Signed(3)
      [] digits = <<"1", "2">> -> Signed(12)

TokensOnly == [n \in 1..Len(tokens) |-> tokens[n].tok]

\* C17: a real literal, `i` and a digit run make one Complex token of that
\* real and imaginary part; without a real literal directly before `i` the
\* real part is 0, without digits the imaginary part is 1, and a superscript
\* minus directly after `i` makes the imaginary part negative.  (The text
\* `i`, minus, `.` is left out: the scanner rejects it on purpose.)
C17_ImaginaryLiteral ==
    \A prefix \in LitPrefixes, real \in Reals, sign \in ImagSigns,
       digits \in ImagDigits, rest \in LitRests :
        (/\ origin = "source"
         /\ input = SrcImaginary(prefix, real, sign, digits, rest)
         /\ ~(sign = <<"sup-">> /\ digits = <<>> /\ rest = <<".">>)
         /\ status # "idle") =>
            /\ status # "synerr"
            /\ TokensOnly = PrefixToks(prefix)
                              \o <<T_Complex(RealOf(real), ImagOf(sign, digits))>>
                              \o RestToks(rest)

\* the multiplier a real literal gives pi, 1 when there is none
TimesOf(real) == IF real = <<>> THEN <<1, 1>> ELSE RealOf(real)

\* C18: a real literal m directly before pi is consumed and gives the one
\* token Pi(m), and Pi(1) when no numeric token is directly before; running
\* a Pi token pushes the symbolic value Pi(m, +1).
C18_PiLiteral ==
    /\ \A prefix \in LitPrefixes, real \in Reals, rest \in LitRests :
         (/\ origin = "source"
          /\ input = SrcCircle(prefix, real, "pi", rest)
          /\ status # "idle") =>
             /\ status # "synerr"
             /\ TokensOnly = PrefixToks(prefix) \o <<T_Pi(TimesOf(real))>> \o RestToks(rest)
    /\ (ghost.at > 0 /\ tokens[ghost.at].tok.t = "Pi") =>
            /\ status \in {"running", "ok"}
            /\ stack = Append(ghost.pre, Pi(tokens[ghost.at].tok.r, 1))
            /\ pc = ghost.at - 1

C18_Reached ==
    /\ origin = "source"
    /\ input = <<"1", ".", "5", "pi">>
    /\ status = "ok"
    /\ Len(tokens) = 1
    /\ stack = <<Pi(<<3, 2>>, 1)>>

\* C19: tau takes a real literal m directly before it the way pi does: the
\* literal is consumed and the one token Pi(2 m) stands for both.
C19_TauLiteral ==
    \A prefix \in LitPrefixes, real \in Reals \ {<<>>}, rest \in LitRests :
        (/\ origin = "source"
         /\ input = SrcCircle(prefix, real, "tau", rest)
         /\ status # "idle") =>
            /\ status # "synerr"
            /\ TokensOnly = PrefixToks(prefix)
                              \o <<T_Pi(QScale(RealOf(real), 2))>>
                              \o RestToks(rest)

\* the token of a literal of ChainLits
LitTok(w) ==
    CASE w = <<"1">> -> T_Integer(1)
      [] w = <<"1", ".", "5">> -> T_Rational(<<3, 2>>)
      [] w = <<"2", "i", "3">> -> T_Complex(<<2, 1>>, <<3, 1>>)

\* C20: a chain of n >= 2 literals tied together parses to one List token
\* whose elements are the literals in source order, none lost, none twice.
C20_ChainKeepsEveryLiteral ==
    \A ws \in ChainWords :
        (origin = "source" /\ input = SrcChain(ws) /\ status # "idle") =>
            /\ status # "synerr"
            /\ TokensOnly = <<T_List([n \in 1..Len(ws) |-> LitTok(ws[n])])>>

\* the magnitude of a digit run, and the tokens a tail leaves after the literal
RunOf(digits) ==
    CASE digits = <<"2">> -> 2
      [] digits = <<"1", "2">> -> 12
      [] digits = <<"0">> -> 0
TailToks(tail) ==
    CASE tail \in {<<>>, <<".", "5">>} -> <<>>
      [] tail = <<".">> -> <<T_Dup>>
      [] tail = <<".", " ", "2">> -> <<T_Dup, T_Integer(2)>>

\* C21: a superscript minus directly before a digit run is absorbed: parse
\* emits one literal of value -d (-(d + 1/2) with the fractional part .5)
\* and no Minus token, whether the run is followed by nothing, by a
\* fractional part, or by a lone `.` that stays a token of its own.
C21_MinusIsAbsorbed ==
    \A prefix \in LitPrefixes, digits \in DigitRuns, tail \in DigitTails :
        (origin = "source" /\ input = SrcSigned(prefix, digits, tail) /\ status # "idle") =>
            /\ status # "synerr"
            /\ TokensOnly =
                 PrefixToks(prefix)
                 \o << IF tail = <<".", "5">>
                       THEN T_Rational(Q(-(2 * RunOf(digits) + 1), 2))
                       ELSE T_Integer(-RunOf(digits)) >>
                 \o TailToks(tail)

\* a token without the spans its Inverse wrappers carry
RECURSIVE Shape(_)
Shape(tok) == IF tok.t = "Inverse" THEN [t |-> "Inverse", tok |-> Shape(tok.tok)] ELSE tok

\* m inverse markers around a token
RECURSIVE Wrapped(_, _)
Wrapped(m, tok) == IF m = 0 THEN tok ELSE [t |-> "Inverse", tok |-> Wrapped(m - 1, tok)]

\* an Inverse token, at any depth, still wraps the placeholder
RECURSIVE HoldsPlaceholder(_)
HoldsPlaceholder(tok) ==
    \/ tok.t = "Inverse" /\ (tok.tok.t = "InvalidState" \/ HoldsPlaceholder(tok.tok))
    \/ tok.t \in {"Function", "Scope"}
         /\ \E n \in 1..Len(tok.tls) : HoldsPlaceholder(tok.tls[n].tok)

InvPrefixToks(prefix) ==
    CASE prefix = <<>> -> <<>>
      [] prefix = <<"+", " ">> -> <<T_FunctionCall("+")>>
      [] prefix = <<"2", " ">> -> <<T_Integer(2)>>
FollowTok(follow) ==
    CASE follow = <<"+">> -> T_FunctionCall("+")
      [] follow = <<"2">> -> T_Integer(2)
      [] follow = <<"alpha">> -> T_FunctionCall("alpha")
      [] follow = <<".">> -> T_Dup

\* C22: after a successful parse no Inverse token wraps the placeholder, and
\* each inverse marker wraps the token that followed it, which is no longer
\* a token of its own: m markers in a row and a token t come out as the one
\* token Inverse(.. Inverse(t)).
C22_InverseWrapsNext ==
    /\ (origin = "source" /\ status \in {"running", "ok", "err", "panic"}) =>
            \A n \in 1..Len(tokens) : ~HoldsPlaceholder(tokens[n].tok)
    /\ \A prefix \in InvPrefixes, m \in 1..MaxMarkers, gap \in InvGaps, follow \in InvFollows :
         (origin = "source" /\ input = SrcInverse(prefix, m, gap, follow) /\ status # "idle") =>
            /\ status # "synerr"
            /\ [n \in 1..Len(tokens) |-> Shape(tokens[n].tok)] =
                 InvPrefixToks(prefix) \o <<Wrapped(m, FollowTok(follow))>>

\* C23: an inverse marker with no token after it (end of input, or blanks
\* and newlines only) makes parse fail with LonelyInverse, at a span that
\* starts at the offset of that marker.
C23_LonelyInverse ==
    \A prefix \in InvPrefixes, m \in 1..MaxMarkers, trail \in InvTrails :
        (origin = "source" /\ input = SrcLonely(prefix, m, trail) /\ status # "idle") =>
            /\ status = "synerr"
            /\ error.err = LonelyInverse
            /\ error.loc.start \in OffsetsAfter(prefix \o Markers(m - 1))

\* what the inverse of an operator makes of the Integers x (second from the
\* top) and y (top): the operator that undoes it, applied to x and y
Undone(c, x, y) ==
    CASE c = "+" -> <<Integer(x - y)>>
      [] c = "-" -> <<Integer(x + y)>>
      [] c = "div" -> <<Integer(x * y)>>
      [] c = "ud" -> <<Integer(y), Integer(x)>>

\* C24: an Inverse token that wraps an operator call of the table applies
\* the builtin's inverse function, after the arity check: on a stack
\* shallower than the arity InvalidPop, for `.`, `,` and iota (which have no
\* inverse) NoInverse, for + - and the division the operation that undoes
\* them, for the swap the swap.  An Inverse token that wraps anything else
\* ends the run with InverseOfNonFunction and leaves the stack as it was.
C24_InverseToken ==
    (ghost.at > 0 /\ tokens[ghost.at].tok.t = "Inverse") =>
        LET inner == tokens[ghost.at].tok.tok
            pre == ghost.pre
        IN  /\ inner.t # "FunctionCall" =>
                 /\ status = "err"
                 /\ error.err = InverseOfNonFunction
                 /\ stack = pre
            /\ (inner.t = "FunctionCall" /\ inner.c \in DOMAIN BUILTINS) =>
                 IF Len(pre) < BUILTINS[inner.c].arity
                 THEN /\ status = "err"
                      /\ error.err = InvalidPop(Len(pre), BUILTINS[inner.c].arity)
                      /\ stack = pre
                 ELSE /\ inner.c \in {".", ",", "iota"} =>
                           status = "err" /\ error.err = NoInverse /\ stack = pre
                      /\ (/\ inner.c \in {"+", "-", "div", "ud"}
                          /\ Top(pre, 1).k = "Integer"
                          /\ Top(pre, 2).k = "Integer") =>
                           /\ status \in {"running", "ok"}
                           /\ stack = Below(pre, 2)
                                        \o Undone(inner.c, Top(pre, 2).n, Top(pre, 1).n)

C24_Reached ==
    /\ status = "ok"
    /\ ghost.at = 1
    /\ tokens[1].tok.t = "Inverse"
    /\ tokens[1].tok.tok = T_FunctionCall("+")
    /\ ghost.pre = <<Integer(3), Integer(2)>>
    /\ stack = <<Integer(1)>>

\* C25: the swap token on a stack of two or more values exchanges the top
\* two and leaves the values below as they were; on a shallower stack the
\* run ends with InvalidPop of arity 2 and the actual depth.
C25_SwapToken ==
    (ghost.at > 0 /\ tokens[ghost.at].tok.t = "Flip") =>
        IF Len(ghost.pre) >= 2
        THEN /\ status \in {"running", "ok"}
             /\ stack = Below(ghost.pre, 2) \o <<Top(ghost.pre, 1), Top(ghost.pre, 2)>>
        ELSE /\ status = "err"
             /\ error.err = InvalidPop(Len(ghost.pre), 2)
             /\ stack = ghost.pre

\* the rank of a kind under Complex > Float > Rational > Integer
RankOf(kd) ==
    CASE kd = "Integer" -> 1 [] kd = "Rational" -> 2 [] kd = "Float" -> 3 [] kd = "Complex" -> 4
Stronger(ka, kb) == IF RankOf(ka) >= RankOf(kb) THEN ka ELSE kb
PlainKinds == {"Integer", "Rational", "Float", "Complex"}

\* C26: add and mul of two operands among Integer, Rational, Float and
\* Complex give a value of the stronger of the two kinds.
C26_StrongerKindWins ==
    (/\ res # NoError
     /\ res.op \in {"add", "mul"}
     /\ opnd[1].k \in PlainKinds
     /\ opnd[2].k \in PlainKinds) => res.v.k = Stronger(opnd[1].k, opnd[2].k)

\* C27: two Pi-multiples of the same exponent sign add to the Pi-multiple of
\* the sum of their coefficients, and the product of two Pi-multiples is a
\* symbolic value with the product of the coefficients: neither operation
\* aborts or gives a Float.
C27_PiWithPi ==
    (res # NoError /\ opnd[1].k = "Pi" /\ opnd[2].k = "Pi") =>
        /\ (res.op = "add" /\ opnd[1].esign = opnd[2].esign) =>
                res.v = Pi(QAdd(opnd[1].r, opnd[2].r), opnd[1].esign)
        /\ res.op = "mul" =>
                /\ ~IsPanic(res.v)
                /\ res.v.k \in {"Pi", "E"}
                /\ res.v.r = QMul(opnd[1].r, opnd[2].r)

\* the Pi-multiple and the exact number of a pair of operands
PiWithExact ==
    /\ res # NoError
    /\ \/ opnd[1].k = "Pi" /\ opnd[2].k \in {"Integer", "Rational"}
       \/ opnd[2].k = "Pi" /\ opnd[1].k \in {"Integer", "Rational"}
ThePi == IF opnd[1].k = "Pi" THEN opnd[1] ELSE opnd[2]
TheExact ==
    LET v == IF opnd[1].k = "Pi" THEN opnd[2] ELSE opnd[1]
    IN IF v.k = "Integer" THEN <<v.n, 1>> ELSE v.q

NumericKinds ==
    {"Integer", "Rational", "Float", "Complex", "Infinity", "Epsilon", "Pi", "Undefined"}

\* C29: Undefined is absorbing: add and mul of Undefined and a value of a
\* numeric kind, in either order, give Undefined.
C29_UndefinedAbsorbs ==
    (/\ res # NoError
     /\ res.op \in {"add", "mul"}
     /\ \/ opnd[1] = Undefined /\ opnd[2].k \in NumericKinds
        \/ opnd[2] = Undefined /\ opnd[1].k \in NumericKinds) => res.v = Undefined

C29_Reached ==
    /\ res # NoError
    /\ res.op = "mul"
    /\ opnd = <<Infinity(1), Undefined>>
    /\ res.v = Undefined

\* the operands the double reciprocal is stated for
Invertible == opnd[1].k \in {"Integer", "Rational", "Infinity", "Epsilon", "Pi"}
IsNought(v) ==
    \/ v.k = "Integer" /\ v.n = 0
    \/ v.k = "Rational" /\ v.q[1] = 0
    \/ v.k = "Pi" /\ v.r[1] = 0

\* C30 as stated: the reciprocal of the reciprocal of a non-zero Integer,
\* Rational, Infinity, Epsilon or Pi-multiple is that value, of the same
\* variant; the reciprocal of zero is InvalidState(DivideByZero).
C30_ReciprocalTwice ==
    (res # NoError /\ res.op = "reciprocal" /\ Invertible) =>
        IF IsNought(opnd[1]) THEN res.v = InvalidState(DivideByZero)
        ELSE reciprocal(res.v) = opnd[1]

\* C30: the reciprocal of the reciprocal of a non-zero Rational, Infinity,
\* Epsilon or Pi-multiple is that value; of a non-zero Integer n it is the
\* Rational n/1; the reciprocal of zero is InvalidState(DivideByZero).
C30_ReciprocalTwiceIsRational ==
    (res # NoError /\ res.op = "reciprocal" /\ Invertible) =>
        IF IsNought(opnd[1]) THEN res.v = InvalidState(DivideByZero)
        ELSE IF opnd[1].k = "Integer" THEN reciprocal(res.v) = Rational(<<opnd[1].n, 1>>)
        ELSE reciprocal(res.v) = opnd[1]

C30_Reached ==
    /\ res # NoError
    /\ res.op = "reciprocal"
    /\ opnd[1] = Integer(2)
    /\ res.v = Rational(<<1, 2>>)
    /\ reciprocal(res.v) = Rational(<<2, 1>>)

\* n to the power m, for the exponents 0, 1 and 2 of the operands
SmallPower(n, m) == CASE m = 0 -> 1 [] m = 1 -> n [] m = 2 -> n * n

\* C31: pow of an Integer n, zero included, to an Integer m: for m from 0 to
\* the largest u32 the Integer n^m; for m below 0 down to minus the largest
\* u32 the exact Rational 1/(n^(-m)); for m beyond the largest u32 in
\* magnitude InvalidState(ExponentTooBig(m)); nothing else.
C31_IntegerPower ==
    (res # NoError /\ res.op = "pow" /\ opnd[1].k = "Integer" /\ opnd[2].k = "Integer") =>
        LET n == opnd[1].n
            m == opnd[2].n
        IN  IF m > U32_MAX \/ -m > U32_MAX THEN res.v = InvalidState(ExponentTooBig(m))
            ELSE IF m >= 0 THEN res.v = Integer(SmallPower(n, m))
            ELSE /\ ~IsPanic(res.v)
                 /\ res.v.k = "Rational"
                 /\ res.v.q[1] * SmallPower(n, -m) = res.v.q[2]

\* C32: the List the evaluator pushes for a list literal holds elements of
\* one kind: a literal whose elements differ in kind ends the run with an
\* error and leaves no List of mixed kinds on the stack.
C32_ListLiteralIsOfOneKind ==
    (ghost.at > 0 /\ tokens[ghost.at].tok.t = "List" /\ status \in {"running", "ok", "err"}) =>
        IF \E a, b \in 1..Len(tokens[ghost.at].tok.toks) :
                tokens[ghost.at].tok.toks[a].t # tokens[ghost.at].tok.toks[b].t
        THEN status = "err" /\ stack = ghost.pre
        ELSE /\ Len(stack) = Len(ghost.pre) + 1
             /\ Last(stack).k = "List"
             /\ \A a, b \in 1..Len(Last(stack).vals) :
                    Last(stack).vals[a].k = Last(stack).vals[b].k

\* the Integers 1, 2, .., n in increasing order
UpTo(n) == [m \in 1..n |-> [k |-> "Integer", n |-> m]]

\* C33: iota on a stack whose top is a positive Integer n replaces the top
\* with the List of the Integers 1 .. n and leaves the rest of the stack as
\* it was; on a top that is zero, negative or not an Integer it returns an
\* error and no List is pushed.
C33_Iota ==
    (/\ ghost.at > 0
     /\ tokens[ghost.at].tok = T_FunctionCall("iota")
     /\ Len(ghost.pre) > 0) =>
        LET x == Top(ghost.pre, 1) IN
        IF x.k = "Integer" /\ x.n > 0
        THEN /\ status \in {"running", "ok"}
             /\ stack = Below(ghost.pre, 1) \o <<[k |-> "List", vals |-> UpTo(x.n)]>>
        ELSE /\ status = "err"
             /\ stack = ghost.pre

\* a first word, then 0 to 2 one-digit literals, each after one blank
HeadWords == { <<"+">>, <<"times">>, <<"(", ".", ")">> }
TailWords == { <<>>, <<<<"2">>>>, <<<<"2">>, <<"3">>>> }

\* C34: the span of every token starts at the offset in the input of the
\* token's first character, at top level and inside a bracketed
\* sub-program: in `w 2 3` the first word starts at 0 and the literals at
\* the length of w plus 1 and plus 3, also when w is the bracket `(.)`,
\* whose `.` starts at 1.
C34_OffsetsAreAbsolute ==
    \A w \in HeadWords, ops \in TailWords :
        (/\ origin = "source"
         /\ input = JoinWords(<<w>> \o ops)
         /\ status \notin {"idle", "synerr"}) =>
            /\ Len(tokens) = 1 + Len(ops)
            /\ tokens[1].loc.start = 0
            /\ \A n \in 1..Len(ops) : tokens[n + 1].loc.start = ByteLen(w) + 2 * n - 1
            /\ w = <<"(", ".", ")">> =>
                 /\ tokens[1].tok.t = "Function"
                 /\ Len(tokens[1].tok.tls) = 1
                 /\ tokens[1].tok.tls[1].loc.start = 1

\* the glyph a piece stands for, longest mnemonic first
GlyphsOf(piece) ==
    CASE piece = <<"c", "r", "o", "o", "t">> -> <<"cbrt">>
      [] piece = <<"r", "o", "o", "t">> -> <<"sqrt">>
      [] piece = <<"c", "b", "r", "t">> -> <<"cbrt">>
      [] piece = <<"p", "i">> -> <<"pi">>
      [] piece = <<"s", "i", "n">> -> <<"circ">>
      [] piece = <<"c">> -> <<"c">>
      [] piece = <<"2">> -> <<"2">>

\* C35: format is a function of its input and replaces the longest mnemonic
\* first: each piece of the text comes out as its glyph, `croot` as the cube
\* root and never as `c` and the square root, whichever Formatter formats it.
C35_LongestMatchFirst ==
    \A ws \in PieceWords :
        (origin = "formatter" /\ input = JoinWords(ws) /\ status = "formatted") =>
            formatted = JoinWords([n \in 1..Len(ws) |-> GlyphsOf(ws[n])])

\* the number the digits d and the tail after them stand for
DecimalOf(digits, frac) ==
    LET d == IF digits = <<"3">> THEN 3 ELSE 12 IN
    CASE frac = <<".">> -> <<d, 1>>
      [] frac = <<".", "5">> -> <<2 * d + 1, 2>>
      [] frac = <<".", "2", "5">> -> <<4 * d + 1, 4>>

\* C36: the magnitude after `i` is read as a real literal: after the
\* digits d a `.` with no digit after it is not consumed and the imaginary
\* part is d (the `.` is the next token), and with fractional digits f the
\* imaginary part is the exact decimal d.f.
C36_ImaginaryMagnitude ==
    \A real \in FracReals, digits \in FracDigits, frac \in FracTails :
        (origin = "source" /\ input = SrcFraction(real, digits, frac) /\ status # "idle") =>
            /\ status # "synerr"
            /\ TokensOnly = <<T_Complex(IF real = <<>> THEN <<0, 1>> ELSE <<2, 1>>,
                                        DecimalOf(digits, frac))>>
                              \o (IF frac = <<".">> THEN <<T_Dup>> ELSE <<>>)

\* C37: the rotate of the table, applied to a stack of three or more values,
\* returns the stack with the same values in the same order, however often
\* it is applied.
C37_RollIsIdentity ==
    (/\ ghost.at > 0
     /\ tokens[ghost.at].tok = T_FunctionCall("ccw")
     /\ Len(ghost.pre) >= 3) =>
        /\ status \in {"running", "ok"}
        /\ stack = ghost.pre

C37_Reached ==
    /\ status = "ok"
    /\ ghost.at = 1
    /\ tokens[1].tok = T_FunctionCall("ccw")
    /\ tokens[2].tok = T_FunctionCall("ccw")
    /\ ghost.pre = <<Integer(4), Integer(3), Integer(2), Integer(1)>>
    /\ stack = ghost.pre

\* C38: an Env keeps its stack between runs: when the Env has run A, has
\* been repurposed with B and has run B, and every run returned Ok, its
\* stack is the stack one run of B followed by A leaves on a fresh Env.
C38_RunsCompose ==
    (origin = "session" /\ status = "ok") =>
        LET whole == tokens \o earlier.toks
            Fresh(one) == one.r = "Ok" /\ one.stack = stack
        IN Fresh(RunAll(whole, Len(whole), <<>>, FALSE, "abort", <<0, 1>>))

C38_Reached ==
    /\ origin = "session"
    /\ status = "ok"
    /\ earlier.runs = 1
    /\ TokensOnly = <<T_FunctionCall("+"), T_Integer(7)>>
    /\ [n \in 1..Len(earlier.toks) |-> earlier.toks[n].tok]
         = <<T_FunctionCall("+"), T_Integer(1), T_Integer(2)>>
    /\ stack = <<Integer(10)>>

====
